---------------------------- MODULE Spec2Model ----------------------------
(***************************************************************************)
(* A model of ymd (YahooMailDrive): files are split into chunks, every     *)
(* chunk is stored as one mail whose subject is "<name>.part<N>" in an     *)
(* IMAP folder, and the folders of the mailbox are used as directories.    *)
(*                                                                         *)
(* Strings are sequences of tokens ("ymd", "/", "a", ".part", "1", ...):   *)
(* prefix tests, partition and split work on them as they do on the        *)
(* characters of the Python strings.                                       *)
(***************************************************************************)
EXTENDS Integers, Sequences, FiniteSets, TLC

(***************************************************************************)
(* Bounds of the model.                                                    *)
(***************************************************************************)
\* Stand-in for YahooMailAPI.MAX_ATTACHMENT_SIZE (29 * 2**20 in
\* src/ymd/yahoomail.py:38), scaled down so that files of a few bytes need
\* several chunks.
MAX_ATTACHMENT_SIZE == 2
\* Largest size, in bytes, of a local file.
MaxLen == 4
\* Largest number of connections of a drive and of workers of an upload.
MaxWorkers == 2
\* Largest start_chunk given to an upload.
MaxStart == 2
\* Largest number of mails appended to the folders that exist.
MaxMails == 3
\* The mails appended in all under SpecRemove.
MaxRemoveMails == 2
\* The largest size and the most workers given to the functions of SpecPure.
MaxSize == 10
\* The mails appended in all, and the largest recursion depth, under SpecList.
MaxListMails == 2
MaxDepth == 3
MaxBatchWorkers == 4

(***************************************************************************)
(* Strings.                                                                *)
(***************************************************************************)
PART == ".part"
SEP == "/"
None == <<"<None>">>

RECURSIVE FirstIndex(_, _, _)
\* Index of the first occurrence of tok in s at or after i, 0 when absent.
FirstIndex(s, tok, i) ==
    IF i > Len(s) THEN 0
    ELSE IF s[i] = tok THEN i
    ELSE FirstIndex(s, tok, i + 1)

\* str.startswith
startswith(s, prefix) ==
    /\ Len(prefix) <= Len(s)
    /\ SubSeq(s, 1, Len(prefix)) = prefix

\* str.count("/")
CountSep(s) == Cardinality({i \in 1..Len(s) : s[i] = SEP})

Digit == <<"0", "1", "2", "3", "4", "5", "6", "7", "8", "9">>

RECURSIVE IntToStr(_)
\* The decimal digits of n >= 0, as str(n) gives them.
IntToStr(n) ==
    IF n < 10 THEN <<Digit[n + 1]>>
    ELSE IntToStr(n \div 10) \o <<Digit[(n % 10) + 1]>>

Reverse(s) == [i \in 1..Len(s) |-> s[Len(s) + 1 - i]]

Min(a, b) == IF a <= b THEN a ELSE b

(***************************************************************************)
(* The names of the model: local files and backend folders.                *)
(***************************************************************************)
NameA == <<"a">>
\* A file name that itself contains ".part", such as "a.partb".
NameP == <<"a", PART, "b">>
Names == {NameA, NameP}

FolderYmd == <<"ymd">>
FolderYmdA == <<"ymd", SEP, "a">>
FolderYmdA2 == <<"ymd", SEP, "a", "2">>
FolderYmdAA == <<"ymd", SEP, "a", SEP, "a">>
FolderA == <<"a">>
FolderUniverse == {FolderYmd, FolderYmdA, FolderYmdA2, FolderYmdAA, FolderA}

\* The folders the drive is pointed at under SpecRemove, and under
\* SpecRemoveDeep (where a folder has a subfolder with a subfolder).
TargetFolders == {FolderYmd, FolderYmdA, FolderYmdA2, FolderA}
DeepFolders == {FolderYmd, FolderYmdA2, FolderYmdAA}

\* The folders the drive is pointed at under SpecList.
ListFolders == {FolderYmd, FolderYmdA, FolderYmdA2, FolderYmdAA}

\* The subject of a mail that is no chunk: it holds no ".part".
ForeignSubjects == {<<"a">>}

\* What the caller may pass to remove: a file name or a folder path.
RemoveNames == Names \cup FolderUniverse

\* The bytes of a local file of len bytes: byte i is i.
Payload(len) == [i \in 1..len |-> i]

VARIABLES
    connections,    \* len(self._ym): the number of sessions of the drive
    target_folder,  \* self._target_folder
    folders,        \* backend: the folders that exist
    mails,          \* backend: the mails of each folder, in arrival order
    next_uid,       \* backend: the UID the next mail of each folder gets
    pc,             \* "idle", or "uploading" while the batches run
    up,             \* the locals of the running _upload_file_or_buffer
    tree,           \* the running upload_file_or_folder_recursively calls
    source_buffer,  \* the source stream that the batches of an upload share
    result          \* how the last call of the drive ended

vars == <<connections, target_folder, folders, mails, next_uid, pc, up,
          tree, source_buffer, result>>

backend == <<folders, mails, next_uid>>

(***************************************************************************)
(* Chunking.                                                               *)
(***************************************************************************)
\* The chunk count ceil(size / MAX_ATTACHMENT_SIZE), at least 1.
get_chunk_count_ceil(size) ==
    IF size = 0 THEN 1
    ELSE (size + MAX_ATTACHMENT_SIZE - 1) \div MAX_ATTACHMENT_SIZE

get_chunk_count_for_size(size) == (size \div MAX_ATTACHMENT_SIZE) + 1

get_subject_for_file_chunk(file_name, chunk_index) ==
    file_name \o <<PART>> \o IntToStr(chunk_index + 1)

get_file_name_from_subject(subject) ==
    LET i == FirstIndex(subject, PART, 1)
    IN  IF i = 0 THEN None ELSE SubSeq(subject, 1, i - 1)

\* buffer.read(chunk_end - chunk_start) without the seek before it, on a
\* buffer whose cursor is at its start.
load_chunk_unsought(buffer, chunk_start, chunk_end) ==
    SubSeq(buffer, 1, Min(chunk_end - chunk_start, Len(buffer)))

\* buffer.seek(chunk_start); buffer.read(chunk_end - chunk_start)
load_chunk(buffer, chunk_start, chunk_end) ==
    SubSeq(buffer, chunk_start + 1, Min(chunk_end, Len(buffer)))

create_attachment_with_buffer(buffer, chunk_index) ==
    load_chunk(buffer,
               chunk_index * MAX_ATTACHMENT_SIZE,
               (chunk_index + 1) * MAX_ATTACHMENT_SIZE)

(***************************************************************************)
(* The backend, as the sessions see it.                                    *)
(***************************************************************************)
\* A stored mail: its UID in its folder, its subject, the bytes of its
\* attachment and whether it is marked for deletion (copied to Trash and
\* flagged \Deleted).
NewMail(uid, subject, body) ==
    [uid |-> uid, subject |-> subject, body |-> body, deleted |-> FALSE]

\* The number of mails appended so far to the folders that exist.
TotalAppended ==
    LET RECURSIVE Sum(_)
        Sum(S) == IF S = {} THEN 0
                  ELSE LET f == CHOOSE x \in S : TRUE
                       IN  (next_uid[f] - 1) + Sum(S \ {f})
    IN  Sum(FolderUniverse)

\* The data of the reply to UID FETCH of every mail of the folder: the
\* server answers newest first.
FetchReply(folder_name) == Reverse(mails[folder_name])

\* FetchResult.from_raw: the uids and data of the reply, reversed.
from_raw(raw_data) == Reverse(raw_data)

\* YahooMailAPI.get_all_mails
get_all_mails(folder_name) ==
    IF mails[folder_name] = <<>> THEN <<>>
    ELSE from_raw(FetchReply(folder_name))

\* YahooMailAPI.get_all_folders
get_all_folders == folders

\* YahooMailAPI.get_attachment_content_of_mail: UID FETCH in the selected
\* folder.
get_attachment_content_of_mail(selected, mail) ==
    LET i == CHOOSE i \in 1..Len(mails[selected]) :
                 mails[selected][i].uid = mail.uid
    IN  mails[selected][i].body

\* The folders create_folder sends CREATE for, shortest first: every
\* "/"-prefix of folder_name that does not exist, and none when folder_name
\* itself exists.
RECURSIVE create_folder_from(_, _, _)
create_folder_from(folder_name, fs, i) ==
    IF i > Len(folder_name) THEN <<>>
    ELSE IF folder_name[i] # SEP
            /\ (i = Len(folder_name) \/ folder_name[i + 1] = SEP)
            /\ SubSeq(folder_name, 1, i) \notin fs
         THEN <<SubSeq(folder_name, 1, i)>>
                  \o create_folder_from(folder_name, fs, i + 1)
         ELSE create_folder_from(folder_name, fs, i + 1)

\* CREATE is sent for the folder alone, not for the folders above it.
create_folder_alone(folder_name, fs) ==
    IF folder_name \in fs THEN <<>> ELSE <<folder_name>>

create_folder(folder_name, fs) ==
    IF folder_name \in fs THEN <<>>
    ELSE create_folder_from(folder_name, fs, 1)

SeqRange(s) == {s[i] : i \in 1..Len(s)}

\* YahooMailAPI.delete_mails(mails, folder_name, move_to_trash=True): UID COPY
\* to Trash and UID STORE +FLAGS \Deleted, both of the same UIDs and both in
\* folder_name, so that a mail is copied to Trash exactly when it is flagged:
\* the flag of a mail stands for both. A UID that no mail of folder_name has
\* is ignored by the server.
delete_mails_uids(ms, folder_name) ==
    {m.uid : m \in SeqRange(ms)}
        \cap {m.uid : m \in SeqRange(mails[folder_name])}

delete_mails_store(ms, folder_name) ==
    [mails EXCEPT ![folder_name] =
        [i \in 1..Len(@) |->
            IF @[i].uid \in delete_mails_uids(ms, folder_name)
            THEN [@[i] EXCEPT !.deleted = TRUE]
            ELSE @[i]]]

(***************************************************************************)
(* Virtual files.                                                          *)
(***************************************************************************)
\* No value of uploaded_chunks_count read and not yet written back.
NotLoaded == -1

\* An insertion-ordered dict is a sequence of [key, chunks] items.
DictKeys(d) == {d[i].key : i \in 1..Len(d)}

DictGet(d, k) ==
    IF k \in DictKeys(d)
    THEN d[CHOOSE i \in 1..Len(d) : d[i].key = k].chunks
    ELSE <<>>

DictAdd(d, k, mail) ==
    IF k \in DictKeys(d)
    THEN [i \in 1..Len(d) |->
             IF d[i].key = k
             THEN [d[i] EXCEPT !.chunks = Append(@, mail)]
             ELSE d[i]]
    ELSE Append(d, [key |-> k, chunks |-> <<mail>>])

RECURSIVE GroupMails(_, _)
GroupMails(ms, d) ==
    IF ms = <<>> THEN d
    ELSE LET file_name == get_file_name_from_subject(Head(ms).subject)
         IN  IF file_name = None
             THEN GroupMails(Tail(ms), d)
             ELSE GroupMails(Tail(ms), DictAdd(d, file_name, Head(ms)))

get_files_data_in_folder(folder_name) ==
    GroupMails(get_all_mails(folder_name), <<>>)

\* get_files_data(max_recursion_depth=0)
get_files_data_depth0 == get_files_data_in_folder(target_folder)

\* The folders whose path starts with folder_name, folder_name excepted.
get_subfolders(folder_name) ==
    {f \in get_all_folders : startswith(f, folder_name) /\ f # folder_name}

\* depth_key of _get_subfolders
depth_key(folder_name) == CountSep(folder_name)

\* The orders in which a list may hold the elements of S.
Perms(S) ==
    {p \in [1..Cardinality(S) -> S] :
        \A i, j \in 1..Cardinality(S) : i # j => p[i] # p[j]}

\* _get_subfolders(folder_name, reverse=reverse): the subfolders sorted by
\* depth, ascending or (reverse) descending; the order of the subfolders of
\* one depth is that of the server's listing, which is any.
get_subfolders_sorted(folder_name, reverse) ==
    {p \in Perms(get_subfolders(folder_name)) :
        \A i, j \in 1..Len(p) :
            i < j => IF reverse
                     THEN depth_key(p[i]) >= depth_key(p[j])
                     ELSE depth_key(p[i]) <= depth_key(p[j])}

\* str.removeprefix
removeprefix(s, prefix) ==
    IF startswith(s, prefix) THEN SubSeq(s, Len(prefix) + 1, Len(s)) ELSE s

\* dict.update with one item: the value of an existing key is replaced where
\* the key stands, a new key is added at the end.
DictPut(d, k, chunks) ==
    IF k \in DictKeys(d)
    THEN [i \in 1..Len(d) |->
             IF d[i].key = k THEN [key |-> k, chunks |-> chunks] ELSE d[i]]
    ELSE Append(d, [key |-> k, chunks |-> chunks])

RECURSIVE DictUpdate(_, _)
\* dict.update(other)
DictUpdate(d, other) ==
    IF other = <<>> THEN d
    ELSE DictUpdate(DictPut(d, Head(other).key, Head(other).chunks),
                    Tail(other))

\* _get_files_data_in_folder(folder_name, dict_key_prefix=dict_key_prefix)
get_files_data_in_folder_prefixed(folder_name, dict_key_prefix) ==
    LET d == get_files_data_in_folder(folder_name)
    IN  [i \in 1..Len(d) |->
            [key |-> dict_key_prefix \o d[i].key, chunks |-> d[i].chunks]]

\* relative_folder of get_files_data
relative_folder(subfolder) ==
    removeprefix(subfolder, target_folder \o <<SEP>>) \o <<SEP>>

RECURSIVE get_files_data_loop(_, _, _)
\* The loop of get_files_data over the subfolders; max_recursion_depth is
\* <<>> for None and <<d>> for the depth d.
get_files_data_loop(files, subfolders, max_recursion_depth) ==
    IF subfolders = <<>> THEN files
    ELSE LET subfolder == Head(subfolders)
             depth == CountSep(relative_folder(subfolder))
             next ==
                 IF max_recursion_depth # <<>>
                    /\ depth = max_recursion_depth[1]
                 THEN DictPut(files, relative_folder(subfolder), <<>>)
                 ELSE IF max_recursion_depth # <<>>
                         /\ depth > max_recursion_depth[1]
                 THEN files
                 ELSE DictUpdate(files,
                                 get_files_data_in_folder_prefixed(
                                     subfolder, relative_folder(subfolder)))
         IN  get_files_data_loop(next, Tail(subfolders), max_recursion_depth)

\* get_files_data(max_recursion_depth=...), with the subfolders in the order
\* in which _get_subfolders returned them.
get_files_data(subfolders, max_recursion_depth) ==
    IF max_recursion_depth # <<>> /\ max_recursion_depth[1] <= 0
    THEN get_files_data_in_folder(target_folder)
    ELSE get_files_data_loop(get_files_data_in_folder(target_folder),
                             subfolders, max_recursion_depth)

Subjects(ms) == {ms[i].subject : i \in 1..Len(ms)}

(***************************************************************************)
(* The state after YahooMailDrive.__init__.                                *)
(***************************************************************************)
NoUpload == [name |-> <<>>, size |-> 0, start_chunk |-> 0, workers |-> 0,
             needed_chunks_count |-> 0, batches |-> <<>>, submitted |-> 0,
             connection |-> <<>>,
             sent |-> <<>>, raised |-> <<>>, loaded |-> <<>>,
             uploaded_chunks_count |-> 0]

\* No upload_file_or_folder_recursively is running: no frame on the stack,
\* nothing logged.
NoTree == [stack |-> <<>>, log |-> <<>>]

\* No upload reads a stream: the cursor of the stream, and for every batch
\* whether its task has called seek and not yet read.
NoBuffer == [cursor |-> 0, sought |-> <<>>]

\* How a call ended: the exception it raised, or "returned".
Outcome(op, outcome, arg, data) ==
    [op |-> op, outcome |-> outcome, arg |-> arg, data |-> data]

Init ==
    /\ connections \in 1..MaxWorkers
    /\ target_folder = FolderYmd
    /\ folders = SeqRange(create_folder(FolderYmd, {}))
    /\ mails = [f \in FolderUniverse |-> <<>>]
    /\ next_uid = [f \in FolderUniverse |-> 1]
    /\ pc = "idle"
    /\ up = NoUpload
    /\ tree = NoTree
    /\ source_buffer = NoBuffer
    /\ result = Outcome("init", "returned", <<>>, <<>>)

(***************************************************************************)
(* target_folder setter.                                                   *)
(***************************************************************************)
SetTargetFolder(folder_name) ==
    /\ pc = "idle"
    /\ folders' = folders \cup SeqRange(create_folder(folder_name, folders))
    /\ target_folder' = folder_name
    /\ result' = Outcome("target_folder", "returned", folder_name,
                         create_folder(folder_name, folders))
    /\ UNCHANGED <<connections, mails, next_uid, pc, up>>

(***************************************************************************)
(* Upload: _upload_file_or_buffer.                                         *)
(***************************************************************************)
\* tuple(range(start_chunk, needed_chunks_count))
chunks_indices(start_chunk, needed_chunks_count) ==
    [i \in 1..(needed_chunks_count - start_chunk) |-> start_chunk + i - 1]

\* len(chunks_indices) // workers, without the remainder
batches_size_floor(indices, workers) == Len(indices) \div workers

\* len(chunks_indices) // workers + len(chunks_indices) % workers
batches_size(indices, workers) ==
    (Len(indices) \div workers) + (Len(indices) % workers)

\* indices[lo:hi] of Python
Slice(indices, lo, hi) ==
    SubSeq(indices, Min(lo, Len(indices)) + 1, Min(hi, Len(indices)))

make_batches(indices, workers) ==
    [i_batch \in 1..workers |->
        Slice(indices,
              batches_size(indices, workers) * (i_batch - 1),
              batches_size(indices, workers) * i_batch)]

\* zip(self._ym, batches, strict=True) submits a batch for every pair it
\* yields before it raises on lists of different lengths.
submitted_batches(workers) == Min(connections, workers)

\* Every batch given the first connection.
zip_ym_first(i_batch) == 1

\* The connection that zip(self._ym, batches) pairs with batch i_batch, as
\* an index of self._ym.
zip_ym(i_batch) == i_batch

UploadCall(name, size, start_chunk, workers) ==
    /\ pc = "idle"
    /\ IF target_folder \notin folders
       THEN /\ result' = Outcome("upload", "IMAP4.error", <<>>, <<>>)
            /\ UNCHANGED <<pc, up>>
       ELSE LET files_data == get_files_data_depth0
                first_subject ==
                    get_subject_for_file_chunk(name, start_chunk)
                already_present_subjects ==
                    Subjects(DictGet(files_data, name))
                needed_chunks_count ==
                    get_chunk_count_for_size(size)
                indices == chunks_indices(start_chunk, needed_chunks_count)
            IN  IF first_subject \in already_present_subjects
                THEN /\ result' = Outcome("upload", "YMDChunkAlreadyExists",
                                          first_subject, <<>>)
                     /\ UNCHANGED <<pc, up>>
                ELSE /\ TotalAppended + Len(indices) <= MaxMails
                     /\ pc' = "uploading"
                     /\ up' = [name |-> name,
                               size |-> size,
                               start_chunk |-> start_chunk,
                               workers |-> workers,
                               needed_chunks_count |-> needed_chunks_count,
                               batches |-> make_batches(indices, workers),
                               submitted |-> submitted_batches(workers),
                               connection |->
                                   [i \in 1..submitted_batches(workers)
                                        |-> zip_ym(i)],
                               sent |-> [i \in 1..workers |-> 0],
                               raised |-> [i \in 1..workers |-> FALSE],
                               loaded |-> [i \in 1..workers |-> NotLoaded],
                               uploaded_chunks_count |-> 0]
                     /\ result' = Outcome("upload", "running",
                                          <<>>, <<>>)
    /\ UNCHANGED <<connections, target_folder, backend>>

\* The batch of worker i has not ended: it has a chunk to send, or the
\* count of an appended chunk to store.
Running(i) ==
    /\ pc = "uploading"
    /\ i \in 1..up.submitted
    /\ ~up.raised[i]
    /\ (up.sent[i] < Len(up.batches[i]) \/ up.loaded[i] # NotLoaded)

\* A turn of upload_batch's loop that takes the chunks of the batch from its
\* end: for chunk_index in reversed(batch).
save_mail_reversed(i) ==
    /\ Running(i)
    /\ up.loaded[i] = NotLoaded
    /\ LET chunk_index == up.batches[i][Len(up.batches[i]) - up.sent[i]]
           attachment_name == get_subject_for_file_chunk(up.name, chunk_index)
           attachment == create_attachment_with_buffer(
                             Payload(up.size), chunk_index)
       IN  /\ mails' = [mails EXCEPT ![target_folder] =
                           Append(@, NewMail(next_uid[target_folder],
                                             attachment_name, attachment))]
           /\ next_uid' = [next_uid EXCEPT ![target_folder] = @ + 1]
    /\ up' = [up EXCEPT !.sent[i] = @ + 1,
                        !.loaded[i] = up.uploaded_chunks_count]
    /\ UNCHANGED <<connections, target_folder, folders, pc,
                   result>>

\* One turn of upload_batch's loop in the task of batch i, on the connection
\* up.connection[i] that the task was given: save_mail succeeds, and
\* the thread reads uploaded_chunks_count, the first half of the statement
\* uploaded_chunks_count += 1 (the threads share the variable without a lock).
save_mail(i) ==
    /\ Running(i)
    /\ up.loaded[i] = NotLoaded
    /\ LET chunk_index == up.batches[i][up.sent[i] + 1]
           attachment_name == get_subject_for_file_chunk(up.name, chunk_index)
           attachment == create_attachment_with_buffer(
                             Payload(up.size), chunk_index)
       IN  /\ mails' = [mails EXCEPT ![target_folder] =
                           Append(@, NewMail(next_uid[target_folder],
                                             attachment_name, attachment))]
           /\ next_uid' = [next_uid EXCEPT ![target_folder] = @ + 1]
    /\ up' = [up EXCEPT !.sent[i] = @ + 1,
                        !.loaded[i] = up.uploaded_chunks_count]
    /\ UNCHANGED <<connections, target_folder, folders, pc,
                   result>>

\* The second half of uploaded_chunks_count += 1 in the thread of connection
\* i: the value read, plus one, is written to the shared variable.
store_uploaded_chunks_count(i) ==
    /\ Running(i)
    /\ up.loaded[i] # NotLoaded
    /\ up' = [up EXCEPT !.uploaded_chunks_count = up.loaded[i] + 1,
                        !.loaded[i] = NotLoaded]
    /\ UNCHANGED <<connections, target_folder, backend, pc, result>>

\* One turn of upload_batch's loop on connection i: save_mail raises (the
\* APPEND fails), which ends the batch; the exception stays in its future.
save_mail_raises(i) ==
    /\ Running(i)
    /\ up.loaded[i] = NotLoaded
    /\ up' = [up EXCEPT !.raised[i] = TRUE]
    /\ UNCHANGED <<connections, target_folder, backend, pc,
                   result>>

\* The outcome of _upload_file_or_buffer once the executor has shut down.
upload_outcome(u) ==
    IF u.workers # connections THEN "ValueError" ELSE "returned"

\* concurrent.futures.wait and the end of the with block: every submitted
\* batch has ended.
UploadReturn ==
    /\ pc = "uploading"
    /\ \A i \in 1..up.submitted : ~Running(i)
    /\ pc' = "idle"
    /\ up' = NoUpload
    /\ result' = Outcome("upload", upload_outcome(up), <<>>, <<>>)
    /\ UNCHANGED <<connections, target_folder, backend>>

(***************************************************************************)
(* Download.                                                               *)
(***************************************************************************)
RECURSIVE download_file_into(_, _)
\* The bytes written to the destination: the attachment of every chunk mail,
\* in the order of the list.
download_file_into(chunk_mails, selected) ==
    IF chunk_mails = <<>> THEN <<>>
    ELSE get_attachment_content_of_mail(selected, Head(chunk_mails))
             \o download_file_into(Tail(chunk_mails), selected)

\* download(file_name, dst_path) with dst_exists telling whether a file is
\* at the destination path; data is what is written to the destination.
download_outcome(file_name, dst_exists) ==
    IF target_folder \notin folders
    THEN Outcome("download", "IMAP4.error", <<>>, <<>>)
    ELSE IF file_name \notin DictKeys(get_files_data_depth0)
    THEN Outcome("download", "YMDFileDoesNotExist", <<>>, <<>>)
    ELSE IF dst_exists
    THEN Outcome("download", "FileExistsError", <<>>, <<>>)
    ELSE Outcome("download", "returned", <<>>,
                 download_file_into(DictGet(get_files_data_depth0, file_name),
                                    target_folder))

Download(file_name, dst_exists) ==
    /\ pc = "idle"
    /\ result' = download_outcome(file_name, dst_exists)
    /\ UNCHANGED <<connections, target_folder, backend, pc, up>>

(***************************************************************************)
(* Remove: remove_file_or_folder_recursively.                              *)
(***************************************************************************)
RECURSIVE DictValues(_)
\* Every mail of every file of the dict, file after file.
DictValues(d) ==
    IF d = <<>> THEN <<>> ELSE Head(d).chunks \o DictValues(Tail(d))

\* A removal that raises YMDFolderDoesNotExistError whatever recurse is.
remove_not_found_any(recurse) == "YMDFolderDoesNotExistError"

\* The exception raised when the name is neither a file of the target
\* folder nor a folder.
remove_not_found(recurse) ==
    IF recurse THEN "YMDFolderDoesNotExistError" ELSE "YMDFileDoesNotExist"

\* Whether a folder of that name exists, as the check of a file's removal
\* sees it.
remove_is_ambiguous(file_or_folder_name) ==
    file_or_folder_name \in get_all_folders

\* Whether the removal of a folder without recursion is refused.
remove_is_blocked(files_data, recurse) ==
    files_data # <<>> /\ ~recurse

\* The folder in which the mails of a removed folder are looked up by
\* their UID to be trashed.
remove_folder_mails_in(file_or_folder_name) == target_folder

\* The folders that the removal of a folder deletes.
remove_deleted_folders(file_or_folder_name) ==
    get_subfolders(file_or_folder_name) \cup {file_or_folder_name}

\* The reverse argument that the removal of a folder gives _get_subfolders.
remove_reverse == TRUE

\* The calls that the removal of a folder makes on the backend, in order:
\* delete_mails in a folder, then delete_folder of every subfolder and of
\* the folder.
remove_steps(subfolders, file_or_folder_name) ==
    <<[op |-> "delete_mails",
       folder |-> remove_folder_mails_in(file_or_folder_name)]>>
    \o [i \in 1..Len(subfolders) |->
           [op |-> "delete_folder", folder |-> subfolders[i]]]
    \o <<[op |-> "delete_folder", folder |-> file_or_folder_name]>>

Remove(file_or_folder_name, recurse) ==
    /\ pc = "idle"
    /\ IF target_folder \notin folders
       THEN /\ result' = Outcome("remove", "IMAP4.error", <<>>, <<>>)
            /\ UNCHANGED backend
       ELSE IF file_or_folder_name \in DictKeys(get_files_data_depth0)
       THEN IF remove_is_ambiguous(file_or_folder_name)
            THEN /\ result' = Outcome("remove", "YMDAmbiguousNameError", <<>>, <<>>)
                 /\ UNCHANGED backend
            ELSE LET chunk_mails ==
                         DictGet(get_files_data_depth0, file_or_folder_name)
                 IN  /\ mails' = delete_mails_store(chunk_mails, target_folder)
                     /\ result' = Outcome("remove", "returned", <<>>, <<>>)
                     /\ UNCHANGED <<folders, next_uid>>
       ELSE IF file_or_folder_name \notin get_all_folders
       THEN /\ result' = Outcome("remove", remove_not_found(recurse), <<>>, <<>>)
            /\ UNCHANGED backend
       ELSE LET files_data == get_files_data_in_folder(file_or_folder_name)
                files_data_to_delete == DictValues(files_data)
                selected == remove_folder_mails_in(file_or_folder_name)
                deleted == remove_deleted_folders(file_or_folder_name)
            IN  IF remove_is_blocked(files_data, recurse)
                THEN /\ result' = Outcome("remove", "YMDFolderIsNotEmptyError",
                                          <<>>, <<>>)
                     /\ UNCHANGED backend
                ELSE /\ mails' =
                            [f \in FolderUniverse |->
                                IF f \in deleted THEN <<>>
                                ELSE delete_mails_store(files_data_to_delete,
                                                        selected)[f]]
                     /\ folders' = folders \ deleted
                     /\ next_uid' = [f \in FolderUniverse |->
                                        IF f \in deleted THEN 1
                                        ELSE next_uid[f]]
                     /\ \E subfolders \in get_subfolders_sorted(
                                               file_or_folder_name,
                                               remove_reverse) :
                            result' = Outcome("remove", "returned", <<>>,
                                              remove_steps(
                                                  subfolders,
                                                  file_or_folder_name))
    /\ UNCHANGED <<connections, target_folder, pc, up>>

(***************************************************************************)
(* The server removes the mails flagged \Deleted of a folder (an EXPUNGE,  *)
(* which the drive never sends itself).                                    *)
(***************************************************************************)
ServerExpunge(folder_name) ==
    /\ folder_name \in folders
    /\ \E i \in 1..Len(mails[folder_name]) : mails[folder_name][i].deleted
    /\ mails' = [mails EXCEPT ![folder_name] =
                    SelectSeq(@, LAMBDA m : ~m.deleted)]
    /\ UNCHANGED <<connections, target_folder, folders, next_uid,
                   pc, up, result>>

(***************************************************************************)
(* Spec: the uploads and downloads of one drive in its target folder, with *)
(* every size, start chunk and number of workers of the bounds.            *)
(***************************************************************************)
Next ==
    \/ \E n \in Names, z \in 0..MaxLen, s \in 0..MaxStart, w \in 1..MaxWorkers :
           UploadCall(n, z, s, w)
           /\ UNCHANGED <<tree, source_buffer>>
    \/ \E i \in 1..MaxWorkers : save_mail(i)
           /\ UNCHANGED <<tree, source_buffer>>
    \/ \E i \in 1..MaxWorkers : store_uploaded_chunks_count(i)
           /\ UNCHANGED <<tree, source_buffer>>
    \/ \E i \in 1..MaxWorkers : save_mail_raises(i)
           /\ UNCHANGED <<tree, source_buffer>>
    \/ UploadReturn /\ UNCHANGED <<tree, source_buffer>>
    \/ \E n \in Names, d \in BOOLEAN : Download(n, d)
           /\ UNCHANGED <<tree, source_buffer>>

Spec == Init /\ [][Next]_vars

(***************************************************************************)
(* SpecRemove: a drive with one connection that moves between the folders, *)
(* uploads files of one chunk with one worker and removes files and        *)
(* folders, while the server expunges.                                     *)
(***************************************************************************)
InitRemove == Init /\ connections = 1

NextRemove ==
    \/ \E f \in TargetFolders : SetTargetFolder(f)
           /\ UNCHANGED <<tree, source_buffer>>
    \/ \E n \in Names :
           TotalAppended < MaxRemoveMails /\ UploadCall(n, 0, 0, 1)
           /\ UNCHANGED <<tree, source_buffer>>
    \/ save_mail(1) /\ UNCHANGED <<tree, source_buffer>>
    \/ store_uploaded_chunks_count(1) /\ UNCHANGED <<tree, source_buffer>>
    \/ UploadReturn /\ UNCHANGED <<tree, source_buffer>>
    \/ \E n \in RemoveNames, r \in BOOLEAN : Remove(n, r)
           /\ UNCHANGED <<tree, source_buffer>>
    \/ \E f \in FolderUniverse : ServerExpunge(f)
           /\ UNCHANGED <<tree, source_buffer>>

SpecRemove == InitRemove /\ [][NextRemove]_vars

(***************************************************************************)
(* SpecRemoveDeep: as SpecRemove, with folders of two depths below the     *)
(* first target folder and files of one name.                              *)
(***************************************************************************)
NextRemoveDeep ==
    \/ \E f \in DeepFolders : SetTargetFolder(f)
           /\ UNCHANGED <<tree, source_buffer>>
    \/ TotalAppended < MaxRemoveMails /\ UploadCall(NameA, 0, 0, 1)
           /\ UNCHANGED <<tree, source_buffer>>
    \/ save_mail(1) /\ UNCHANGED <<tree, source_buffer>>
    \/ store_uploaded_chunks_count(1) /\ UNCHANGED <<tree, source_buffer>>
    \/ UploadReturn /\ UNCHANGED <<tree, source_buffer>>
    \/ \E n \in RemoveNames, r \in BOOLEAN : Remove(n, r)
           /\ UNCHANGED <<tree, source_buffer>>

SpecRemoveDeep == InitRemove /\ [][NextRemoveDeep]_vars

(***************************************************************************)
(* SpecList: a drive with one connection that moves between folders of     *)
(* several depths, uploads files of one chunk and lists the files, while   *)
(* the target folder receives mails that are no chunks.                    *)
(***************************************************************************)
\* get_files_data(max_recursion_depth=...); max_recursion_depth is <<>> for
\* None and <<d>> for the depth d.
ListFiles(max_recursion_depth) ==
    /\ pc = "idle"
    /\ IF target_folder \notin folders
       THEN result' = Outcome("get_files_data", "IMAP4.error",
                              max_recursion_depth, <<>>)
       ELSE \E subfolders \in get_subfolders_sorted(target_folder, FALSE) :
                result' = Outcome("get_files_data", "returned",
                                  max_recursion_depth,
                                  get_files_data(subfolders,
                                                 max_recursion_depth))
    /\ UNCHANGED <<connections, target_folder, backend, pc, up>>

\* Another client of the mailbox appends a mail to the target folder.
ForeignAppend(subject) ==
    /\ pc = "idle"
    /\ target_folder \in folders
    /\ TotalAppended < MaxListMails
    /\ mails' = [mails EXCEPT ![target_folder] =
                    Append(@, NewMail(next_uid[target_folder], subject, <<>>))]
    /\ next_uid' = [next_uid EXCEPT ![target_folder] = @ + 1]
    /\ UNCHANGED <<connections, target_folder, folders, pc, up, result>>

NextList ==
    \/ \E f \in ListFolders : SetTargetFolder(f)
           /\ UNCHANGED <<tree, source_buffer>>
    \/ \E n \in Names, z \in {0, MAX_ATTACHMENT_SIZE} :
           TotalAppended < MaxListMails /\ UploadCall(n, z, 0, 1)
           /\ UNCHANGED <<tree, source_buffer>>
    \/ save_mail(1) /\ UNCHANGED <<tree, source_buffer>>
    \/ store_uploaded_chunks_count(1) /\ UNCHANGED <<tree, source_buffer>>
    \/ UploadReturn /\ UNCHANGED <<tree, source_buffer>>
    \/ \E subject \in ForeignSubjects : ForeignAppend(subject)
           /\ UNCHANGED <<tree, source_buffer>>
    \/ \E d \in 0..MaxDepth : ListFiles(<<d>>)
           /\ UNCHANGED <<tree, source_buffer>>
    \/ ListFiles(<<>>) /\ UNCHANGED <<tree, source_buffer>>

SpecList == InitRemove /\ [][NextList]_vars

(***************************************************************************)
(* upload_file_or_folder_recursively on a local directory.                 *)
(***************************************************************************)
\* The mails uploaded before the directory is.
MaxTreeMails == 1

NameB == <<"b">>

LocalFile(name) == [name |-> name, is_dir |-> FALSE]

LocalDir(name) == [name |-> name, is_dir |-> TRUE]

\* The local directories of the tree that is uploaded, by their path
\* relative to its root: the root, "a" and "a/a".
LocalDirs == {<<>>, <<"a">>, <<"a", SEP, "a">>}

\* The path of the entry name of the local directory path.
InnerPath(path, name) ==
    IF path = <<>> THEN name ELSE path \o <<SEP>> \o name

\* file_or_folder_path.iterdir(): the root holds the file "b" and the
\* directory "a", which holds the file "b" and the directory "a", which
\* holds the file "a".
iterdir(path) ==
    IF path = <<"a", SEP, "a">> THEN {LocalFile(NameA)}
    ELSE {LocalFile(NameB), LocalDir(<<"a">>)}

\* The frame of one call on a directory: the directory, the entries the
\* loop has yet to take, the name of the entry it has taken, the target
\* folder to set back after the call, and whether the call waits for
\* _upload_file_or_buffer to end.
Frame(path, folder_content, previous_target_folder) ==
    [path |-> path,
     folder_content |-> folder_content,
     inner_file_or_folder |-> <<>>,
     previous_target_folder |-> previous_target_folder,
     uploading |-> FALSE]

Top == tree.stack[Len(tree.stack)]

\* The stack with its top frame replaced.
WithTop(frame) == [tree.stack EXCEPT ![Len(tree.stack)] = frame]

Walking == tree.stack # <<>>

\* The loop goes on with the next entry after a file that exists.
after_chunk_already_exists_continue(folder_content) == folder_content

\* break: the loop takes no other entry of the directory.
after_chunk_already_exists(folder_content) == <<>>

\* The target folder is left where the call on the subfolder put it.
restored_target_folder_kept(frame) == target_folder

\* self.target_folder = previous_target_folder
restored_target_folder(frame) == frame.previous_target_folder

\* upload_file_or_folder_recursively(path) on the root directory, with one
\* worker: the entries are listed, in the order of the file system.
TreeCall ==
    /\ pc = "idle"
    /\ ~Walking
    /\ target_folder = FolderYmd
    /\ target_folder \in folders
    /\ \E folder_content \in Perms(iterdir(<<>>)) :
           tree' = [stack |-> <<Frame(<<>>, folder_content, target_folder)>>,
                    log |-> <<>>]
    /\ result' = Outcome("upload_tree", "running", <<>>, <<>>)
    /\ UNCHANGED <<connections, target_folder, backend, pc, up>>

\* The loop takes an entry that is a directory: the target folder is set to
\* the subfolder of its name, which creates it, and the call on the
\* directory lists its entries.
TreeEnterFolder ==
    /\ pc = "idle"
    /\ Walking
    /\ ~Top.uploading
    /\ Top.folder_content # <<>>
    /\ Head(Top.folder_content).is_dir
    /\ LET inner == Head(Top.folder_content)
           subfolder == target_folder \o <<SEP>> \o inner.name
       IN  /\ folders' = folders \cup SeqRange(create_folder(subfolder, folders))
           /\ target_folder' = subfolder
           /\ \E folder_content
                  \in Perms(iterdir(InnerPath(Top.path, inner.name))) :
                  tree' = [tree EXCEPT !.stack =
                      Append(WithTop([Top EXCEPT
                                         !.folder_content = Tail(@),
                                         !.inner_file_or_folder = inner.name]),
                             Frame(InnerPath(Top.path, inner.name),
                                   folder_content, target_folder))]
    /\ UNCHANGED <<connections, mails, next_uid, pc, up, result>>

\* The loop takes an entry that is a file: _upload_file_or_buffer is called.
TreeUploadFile ==
    /\ Walking
    /\ ~Top.uploading
    /\ Top.folder_content # <<>>
    /\ ~Head(Top.folder_content).is_dir
    /\ UploadCall(Head(Top.folder_content).name, 0, 0, 1)
    /\ tree' = [tree EXCEPT !.stack =
                   WithTop([Top EXCEPT
                               !.folder_content = Tail(@),
                               !.inner_file_or_folder =
                                   Head(Top.folder_content).name,
                               !.uploading = TRUE])]

\* _upload_file_or_buffer has ended: the loop goes on when it returned; on
\* YMDChunkAlreadyExists the exception is logged and the loop is left; any
\* other exception ends every call of the stack.
TreeUploadDone ==
    /\ pc = "idle"
    /\ Walking
    /\ Top.uploading
    /\ result.op = "upload"
    /\ LET event == [outcome |-> result.outcome,
                     name |-> Top.inner_file_or_folder,
                     folder |-> target_folder]
       IN  IF result.outcome = "returned"
           THEN /\ tree' = [stack |-> WithTop([Top EXCEPT !.uploading = FALSE]),
                            log |-> Append(tree.log, event)]
                /\ result' = Outcome("upload_tree", "running", <<>>, <<>>)
           ELSE IF result.outcome = "YMDChunkAlreadyExists"
           THEN /\ tree' = [stack |->
                                WithTop([Top EXCEPT
                                    !.uploading = FALSE,
                                    !.folder_content =
                                        after_chunk_already_exists(@)]),
                            log |-> Append(tree.log, event)]
                /\ result' = Outcome("upload_tree", "running", <<>>, <<>>)
           ELSE /\ tree' = NoTree
                /\ result' = Outcome("upload_tree", result.outcome, <<>>,
                                     Append(tree.log, event))
    /\ UNCHANGED <<connections, target_folder, backend, pc, up>>

\* The loop of a call has ended: the call on a subfolder returns and the
\* target folder is set back; the call on the root returns to the caller.
TreeLeaveFolder ==
    /\ pc = "idle"
    /\ Walking
    /\ ~Top.uploading
    /\ Top.folder_content = <<>>
    /\ IF Len(tree.stack) > 1
       THEN /\ target_folder' = restored_target_folder(Top)
            /\ folders' = folders \cup
                   SeqRange(create_folder(restored_target_folder(Top),
                                          folders))
            /\ tree' = [tree EXCEPT !.stack =
                           SubSeq(@, 1, Len(tree.stack) - 1)]
            /\ UNCHANGED result
       ELSE /\ tree' = NoTree
            /\ result' = Outcome("upload_tree", "returned", <<>>, tree.log)
            /\ UNCHANGED <<target_folder, folders>>
    /\ UNCHANGED <<connections, mails, next_uid, pc, up>>

(***************************************************************************)
(* SpecTree: a drive with one connection; files are uploaded to folders,   *)
(* then a local directory is uploaded to the folder "ymd".                 *)
(***************************************************************************)
TreeFolders == {FolderYmd, FolderYmdA, FolderYmdAA}

NextTree ==
    \/ \E f \in TreeFolders : ~Walking /\ SetTargetFolder(f)
           /\ UNCHANGED <<tree, source_buffer>>
    \/ \E n \in {NameA, NameB} :
           /\ ~Walking
           /\ TotalAppended < MaxTreeMails
           /\ UploadCall(n, 0, 0, 1)
           /\ UNCHANGED <<tree, source_buffer>>
    \/ save_mail(1) /\ UNCHANGED <<tree, source_buffer>>
    \/ store_uploaded_chunks_count(1) /\ UNCHANGED <<tree, source_buffer>>
    \/ UploadReturn /\ UNCHANGED <<tree, source_buffer>>
    \/ TreeCall /\ UNCHANGED source_buffer
    \/ TreeEnterFolder /\ UNCHANGED source_buffer
    \/ TreeUploadFile /\ UNCHANGED source_buffer
    \/ TreeUploadDone /\ UNCHANGED source_buffer
    \/ TreeLeaveFolder /\ UNCHANGED source_buffer

SpecTree == InitRemove /\ [][NextTree]_vars

(***************************************************************************)
(* SpecBuffer: the uploads of one stream (buffer is not None) that all the *)
(* batches read: load_chunk is a seek and a read of the shared stream, and *)
(* the threads of the executor take turns between the two calls.           *)
(***************************************************************************)
\* upload_file_or_folder_recursively(path, source_buffer=buffer, workers):
\* the cursor of the stream is at its start, where
\* _get_chunk_count_for_file puts it back.
UploadBufferCall(name, size, start_chunk, workers) ==
    /\ UploadCall(name, size, start_chunk, workers)
    /\ source_buffer' = IF pc' = "uploading"
                 THEN [cursor |-> 0, sought |-> [i \in 1..workers |-> FALSE]]
                 ELSE source_buffer

\* buffer.seek(chunk_start) of load_chunk in the task of batch i
buffer_seek(i) ==
    /\ Running(i)
    /\ up.loaded[i] = NotLoaded
    /\ ~source_buffer.sought[i]
    /\ source_buffer' = [source_buffer EXCEPT
                      !.cursor = up.batches[i][up.sent[i] + 1]
                                     * MAX_ATTACHMENT_SIZE,
                      !.sought[i] = TRUE]
    /\ UNCHANGED <<connections, target_folder, backend, pc, up, result>>

\* stream.read(size) with the cursor at offset cursor
buffer_read(stream, cursor, size) ==
    SubSeq(stream, cursor + 1, Min(cursor + size, Len(stream)))

\* buffer.read(chunk_end - chunk_start) of load_chunk in the task of batch
\* i, and the rest of the turn of the loop: the mail is appended with what
\* was read.
buffer_read_save_mail(i) ==
    /\ Running(i)
    /\ up.loaded[i] = NotLoaded
    /\ source_buffer.sought[i]
    /\ LET chunk_index == up.batches[i][up.sent[i] + 1]
           attachment_name == get_subject_for_file_chunk(up.name, chunk_index)
           attachment == buffer_read(Payload(up.size), source_buffer.cursor,
                                     MAX_ATTACHMENT_SIZE)
       IN  /\ mails' = [mails EXCEPT ![target_folder] =
                           Append(@, NewMail(next_uid[target_folder],
                                             attachment_name, attachment))]
           /\ next_uid' = [next_uid EXCEPT ![target_folder] = @ + 1]
           /\ source_buffer' = [source_buffer EXCEPT
                             !.cursor = @ + Len(attachment),
                             !.sought[i] = FALSE]
    /\ up' = [up EXCEPT !.sent[i] = @ + 1,
                        !.loaded[i] = up.uploaded_chunks_count]
    /\ UNCHANGED <<connections, target_folder, folders, pc, result>>

NextBuffer ==
    \/ \E z \in 0..MaxLen, w \in 1..MaxWorkers :
           UploadBufferCall(NameA, z, 0, w) /\ UNCHANGED tree
    \/ \E i \in 1..MaxWorkers : buffer_seek(i) /\ UNCHANGED tree
    \/ \E i \in 1..MaxWorkers : buffer_read_save_mail(i) /\ UNCHANGED tree
    \/ \E i \in 1..MaxWorkers :
           store_uploaded_chunks_count(i) /\ UNCHANGED <<tree, source_buffer>>
    \/ UploadReturn /\ UNCHANGED <<tree, source_buffer>>

SpecBuffer == Init /\ [][NextBuffer]_vars

(***************************************************************************)
(* SpecPure: the functions of the drive that read no state, each applied   *)
(* to every input of the bounds; result holds the input and the value.     *)
(***************************************************************************)
\* get_chunk_count_for_size(size)
ChunkCount(size) ==
    /\ pc = "idle"
    /\ result' = Outcome("get_chunk_count_for_size", "returned", <<size>>,
                         get_chunk_count_for_size(size))
    /\ UNCHANGED <<connections, target_folder, backend, pc, up>>

\* The batches _upload_file_or_buffer makes of the chunks left to upload.
Distribute(size, start_chunk, workers) ==
    /\ pc = "idle"
    /\ result' = Outcome("batches", "returned", <<size, start_chunk, workers>>,
                         make_batches(
                             chunks_indices(start_chunk,
                                            get_chunk_count_for_size(size)),
                             workers))
    /\ UNCHANGED <<connections, target_folder, backend, pc, up>>

NextPure ==
    \/ \E z \in 0..MaxSize : ChunkCount(z) /\ UNCHANGED <<tree, source_buffer>>
    \/ \E z \in 0..MaxSize, s \in 0..MaxStart, w \in 1..MaxBatchWorkers :
           Distribute(z, s, w)
           /\ UNCHANGED <<tree, source_buffer>>

SpecPure == InitRemove /\ [][NextPure]_vars

(***************************************************************************)
(* The codec of folder names.  A character is its code point, a string a   *)
(* sequence of code points.                                                *)
(***************************************************************************)
AMPERSAND == 38
HYPHEN == 45
PLUS == 43
SLASH == 47
COMMA == 44
BACKSLASH == 92
DQUOTE == 34
TILDE == 126

\* The longest folder name given to the codec.
MaxNameLen == 3

\* The characters of the folder names given to the codec: '"', '&', '-',
\* '\', 'a', '~', and outside ASCII U+00E9 and U+03E0.
CodecChars == {DQUOTE, AMPERSAND, HYPHEN, BACKSLASH, 97, TILDE, 233, 992}

FolderNameInputs ==
    UNION {[1..n -> CodecChars] : n \in 0..MaxNameLen}

\* The base64 alphabet: A-Z, a-z, 0-9, '+', '/'.
B64Char(v) ==
    IF v < 26 THEN 65 + v
    ELSE IF v < 52 THEN 97 + (v - 26)
    ELSE IF v < 62 THEN 48 + (v - 52)
    ELSE IF v = 62 THEN PLUS
    ELSE SLASH

IsB64(c) == \E v \in 0..63 : B64Char(v) = c

B64Value(c) == CHOOSE v \in 0..63 : B64Char(v) = c

\* The bits of the UTF-16 code units of the characters, high bit first.
RunBits(chars) ==
    [i \in 1..(16 * Len(chars)) |->
        (chars[((i - 1) \div 16) + 1] \div 2 ^ (15 - ((i - 1) % 16))) % 2]

\* The bits of the base64 characters, high bit first.
PayloadBits(payload) ==
    [i \in 1..(6 * Len(payload)) |->
        (B64Value(payload[((i - 1) \div 6) + 1])
            \div 2 ^ (5 - ((i - 1) % 6))) % 2]

RECURSIVE BitsValue(_)
\* The number the bits spell.
BitsValue(bits) ==
    IF bits = <<>> THEN 0
    ELSE 2 * BitsValue(SubSeq(bits, 1, Len(bits) - 1)) + bits[Len(bits)]

\* Bits first..last of the sequence, with 0 past its end.
BitsPadded(bits, first, last) ==
    [i \in 1..(last - first + 1) |->
        IF first + i - 1 <= Len(bits) THEN bits[first + i - 1] ELSE 0]

\* "".join(chars).encode("utf-7") for characters that UTF-7 does not write
\* directly ('~' and the characters outside ASCII): "+", the base64 of the
\* UTF-16 code units without padding, "-".
utf7_encode(chars) ==
    LET bits == RunBits(chars)
        n == (Len(bits) + 5) \div 6
    IN  <<PLUS>>
        \o [j \in 1..n |->
               B64Char(BitsValue(BitsPadded(bits, 6 * j - 5, 6 * j)))]
        \o <<HYPHEN>>

\* str.replace of one character by another
ReplaceChar(s, old, new) ==
    [i \in 1..Len(s) |-> IF s[i] = old THEN new ELSE s[i]]

encode_chars(chars_to_encode) ==
    ReplaceChar(ReplaceChar(utf7_encode(chars_to_encode), PLUS, AMPERSAND),
                SLASH, COMMA)

RECURSIVE encode_loop(_, _, _)
\* for char in folder_name, and the flush after the loop
encode_loop(folder_name, chars_to_encode, encoded) ==
    LET flushed == IF chars_to_encode # <<>>
                   THEN encoded \o encode_chars(chars_to_encode)
                   ELSE encoded
    IN  IF folder_name = <<>> THEN flushed
        ELSE LET char == Head(folder_name)
             IN  IF char = AMPERSAND
                 THEN encode_loop(Tail(folder_name), <<>>,
                                  flushed \o <<AMPERSAND, HYPHEN>>)
                 ELSE IF char \in 32..125
                 THEN encode_loop(Tail(folder_name), <<>>,
                                  flushed \o <<char>>)
                 ELSE encode_loop(Tail(folder_name),
                                  Append(chars_to_encode, char), encoded)

RECURSIVE escape(_)
\* .replace("\\", "\\\\").replace('"', r"\"")
escape(s) ==
    IF s = <<>> THEN <<>>
    ELSE IF Head(s) = BACKSLASH
    THEN <<BACKSLASH, BACKSLASH>> \o escape(Tail(s))
    ELSE IF Head(s) = DQUOTE
    THEN <<BACKSLASH, DQUOTE>> \o escape(Tail(s))
    ELSE <<Head(s)>> \o escape(Tail(s))

encode_folder_name(folder_name) ==
    <<DQUOTE>> \o escape(encode_loop(folder_name, <<>>, <<>>)) \o <<DQUOTE>>

RECURSIVE split(_, _)
\* str.split(sep)
split(s, sep) ==
    LET i == FirstIndex(s, sep, 1)
    IN  IF i = 0 THEN <<s>>
        ELSE <<SubSeq(s, 1, i - 1)>> \o split(SubSeq(s, i + 1, Len(s)), sep)

\* ("+" + payload).encode().decode("utf-7") for a payload of base64
\* characters, the only payloads the output of encode_folder_name holds:
\* the code units the bits spell; bits left over must be fewer than six
\* and all zero, or the decoding raises UnicodeDecodeError.
utf7_decode(payload) ==
    IF \E i \in 1..Len(payload) : ~IsB64(payload[i])
    THEN [raised |-> TRUE, chars |-> <<>>]
    ELSE LET bits == PayloadBits(payload)
             n == Len(bits) \div 16
             left == SubSeq(bits, 16 * n + 1, Len(bits))
         IN  IF Len(left) >= 6 \/ BitsValue(left) # 0
             THEN [raised |-> TRUE, chars |-> <<>>]
             ELSE [raised |-> FALSE,
                   chars |-> [u \in 1..n |->
                       BitsValue(SubSeq(bits, 16 * u - 15, 16 * u))]]

RECURSIVE unescape(_)
\* .replace("\\\\", "\\")
unescape(s) ==
    IF Len(s) < 2 THEN s
    ELSE IF s[1] = BACKSLASH /\ s[2] = BACKSLASH
    THEN <<BACKSLASH>> \o unescape(SubSeq(s, 3, Len(s)))
    ELSE <<Head(s)>> \o unescape(Tail(s))

RECURSIVE decode_parts(_, _)
\* for part in folder_name_parts[1:], and the return
decode_parts(parts, decoded) ==
    IF parts = <<>>
    THEN [outcome |-> "returned", data |-> unescape(decoded)]
    ELSE LET part == Head(parts)
             i == FirstIndex(part, HYPHEN, 1)
             encoded_chars == SubSeq(part, 1, i - 1)
             normal_chars == SubSeq(part, i + 1, Len(part))
             decoded_chars ==
                 utf7_decode(ReplaceChar(encoded_chars, COMMA, SLASH))
         IN  IF i = 0
             THEN [outcome |-> "ValueError", data |-> <<>>]
             ELSE IF decoded_chars.raised
             THEN [outcome |-> "UnicodeDecodeError", data |-> <<>>]
             ELSE decode_parts(Tail(parts),
                               (IF encoded_chars = <<>>
                                THEN decoded \o <<AMPERSAND>>
                                ELSE decoded)
                               \o decoded_chars.chars \o normal_chars)

decode_folder_name(encoded_folder_name) ==
    LET folder_name_parts == split(encoded_folder_name, AMPERSAND)
    IN  decode_parts(Tail(folder_name_parts), Head(folder_name_parts))

(***************************************************************************)
(* SpecCodec: a folder name of the bounds is encoded, and the encoded name *)
(* is decoded.                                                             *)
(***************************************************************************)
EncodeFolderName(folder_name) ==
    /\ pc = "idle"
    /\ result' = Outcome("encode_folder_name", "returned", folder_name,
                         encode_folder_name(folder_name))
    /\ UNCHANGED <<connections, target_folder, backend, pc, up>>

\* decode_folder_name of what encode_folder_name returned.
DecodeFolderName ==
    /\ pc = "idle"
    /\ result.op = "encode_folder_name"
    /\ LET decoded == decode_folder_name(result.data)
       IN  result' = Outcome("decode_folder_name", decoded.outcome,
                             result.data, decoded.data)
    /\ UNCHANGED <<connections, target_folder, backend, pc, up>>

NextCodec ==
    \/ \E folder_name \in FolderNameInputs : EncodeFolderName(folder_name)
           /\ UNCHANGED <<tree, source_buffer>>
    \/ DecodeFolderName /\ UNCHANGED <<tree, source_buffer>>

SpecCodec == InitRemove /\ [][NextCodec]_vars

(***************************************************************************)
(* The replies of the server and their parsing.                            *)
(***************************************************************************)
\* The most data elements of a FETCH reply, and the most mails it tells of.
MaxReplyLen == 4
MaxReplyUid == 2

\* The data elements of a FETCH reply, as imaplib hands them over: the pair
\* (metadata, mail_data) of one message, the bytes b")" that close it, and
\* None.
FetchTuple(uid) ==
    [kind |-> "tuple",
     metadata |-> <<"1", "(UID", IntToStr(uid), "BODY[HEADER.FIELDS", "{1}">>,
     mail_data |-> <<"Subject: ", IntToStr(uid)>>]

FetchBytes == [kind |-> "bytes", metadata |-> <<>>, mail_data |-> <<>>]

FetchNone == [kind |-> "None", metadata |-> <<>>, mail_data |-> <<>>]

FetchElements ==
    {FetchTuple(uid) : uid \in 1..MaxReplyUid} \cup {FetchBytes, FetchNone}

FetchReplies == UNION {[1..n -> FetchElements] : n \in 1..MaxReplyLen}

\* raw_data[::2]
EveryOther(raw_data) ==
    [i \in 1..((Len(raw_data) + 1) \div 2) |-> raw_data[2 * i - 1]]

\* FetchResult.from_raw on the data elements themselves: the exception
\* raised, or the uids and the data.
FetchResult_from_raw(raw_data) ==
    LET raised(exception) ==
            [outcome |-> exception, uids |-> <<>>, data |-> <<>>]
        messages == EveryOther(raw_data)
    IN  IF raw_data[1].kind = "None"
        THEN raised("YMDFetchResultExtractionError")
        ELSE IF Len(raw_data) % 2 # 0
        THEN raised("YMDFetchResultExtractionError")
        ELSE IF \E i \in 1..Len(messages) :
                   /\ messages[i].kind # "tuple"
                   /\ \A j \in 1..(i - 1) : messages[j].kind = "tuple"
                   /\ messages[i].kind = "bytes"
        THEN raised("ValueError")
        ELSE IF \E i \in 1..Len(messages) : messages[i].kind = "None"
        THEN raised("TypeError")
        ELSE [outcome |-> "returned",
              uids |-> Reverse([i \in 1..Len(messages) |->
                                   messages[i].metadata[3]]),
              data |-> Reverse([i \in 1..Len(messages) |->
                                   messages[i].mail_data])]

\* The most lines of a LIST reply.
MaxListLines == 2

\* The delimiter b' "/" ' of a line of a LIST reply.
ListDelimiter == <<32, DQUOTE, SLASH, DQUOTE, 32>>

\* The lines of a LIST reply, as bytes: '() "/" "a"' and '() "/" "b"' as
\* the server writes them, '() "a"' that lacks the delimiter, and '() "/" '
\* that ends with it.
ListLines ==
    {<<40, 41>> \o ListDelimiter \o <<DQUOTE, 97, DQUOTE>>,
     <<40, 41>> \o ListDelimiter \o <<DQUOTE, 98, DQUOTE>>,
     <<40, 41, 32, DQUOTE, 97, DQUOTE>>,
     <<40, 41>> \o ListDelimiter}

ListReplies == UNION {[1..n -> ListLines] : n \in 1..MaxListLines}

\* bytes.partition(sep): what is before the first sep, sep, what is after;
\* the whole, b"" and b"" without any sep.
partition(s, sep) ==
    LET found == {i \in 1..(Len(s) - Len(sep) + 1) :
                     SubSeq(s, i, i + Len(sep) - 1) = sep}
    IN  IF found = {} THEN <<s, <<>>, <<>>>>
        ELSE LET i == CHOOSE i \in found : \A j \in found : i <= j
             IN  <<SubSeq(s, 1, i - 1), sep,
                   SubSeq(s, i + Len(sep), Len(s))>>

\* partitioned_folder[2] == "": bytes compared with a str, which are never
\* equal.
bytes_equals_str(b, s) == FALSE

\* bytes.removeprefix(b'"').removesuffix(b'"')
strip_quotes(b) ==
    LET without_prefix == IF b # <<>> /\ Head(b) = DQUOTE THEN Tail(b) ELSE b
    IN  IF without_prefix # <<>>
           /\ without_prefix[Len(without_prefix)] = DQUOTE
        THEN SubSeq(without_prefix, 1, Len(without_prefix) - 1)
        ELSE without_prefix

RECURSIVE extract_list_result_from(_, _)
\* for folder_data_bytes in data, and the return
extract_list_result_from(data, folders_found) ==
    IF data = <<>>
    THEN [outcome |-> "returned", folders |-> folders_found]
    ELSE LET partitioned_folder == partition(Head(data), ListDelimiter)
         IN  IF bytes_equals_str(partitioned_folder[3], <<>>)
             THEN [outcome |-> "YMDListResultExtractionError",
                   folders |-> <<>>]
             ELSE extract_list_result_from(
                      Tail(data),
                      Append(folders_found,
                             strip_quotes(partitioned_folder[3])))

extract_list_result(data) == extract_list_result_from(data, <<>>)

(***************************************************************************)
(* The listing of a folder whose FETCH reply may be damaged.               *)
(***************************************************************************)
RECURSIVE RawReplyOf(_)
\* The data elements of the reply that tells of the mails ms, first to
\* last: for every mail its pair and the closing bytes.
RawReplyOf(ms) ==
    IF ms = <<>> THEN <<>>
    ELSE <<FetchTuple(Head(ms).uid), FetchBytes>> \o RawReplyOf(Tail(ms))

\* The reply to UID FETCH of every mail of the folder, newest first.
RawFetchReply(folder_name) == RawReplyOf(FetchReply(folder_name))

\* The replies to UID FETCH that the drive may get for the folder: the
\* reply that tells of its mails, the reply [None] of a server that has
\* nothing to tell, the reply cut short of its last element, and the reply
\* with an element of bytes before the first pair.
FetchRepliesOf(folder_name) ==
    LET raw_data == RawFetchReply(folder_name)
    IN  {raw_data,
         <<FetchNone>>,
         SubSeq(raw_data, 1, Len(raw_data) - 1),
         <<FetchBytes>> \o SubSeq(raw_data, 1, Len(raw_data) - 1)}

\* The exception leaves _get_files_data_in_folder as it came.
files_retrieval_unwrapped(raised) == raised

\* except YMDMailsRetrievalError: raise YMDFilesRetrievalError
files_retrieval(raised) ==
    IF raised = "YMDMailsRetrievalError" THEN "YMDFilesRetrievalError"
    ELSE raised

\* except YMDFetchResultExtractionError: raise YMDMailsRetrievalError
mails_retrieval(raised) ==
    IF raised = "YMDFetchResultExtractionError" THEN "YMDMailsRetrievalError"
    ELSE raised

\* How get_all_mails(folder_name) ends when raw_data is the reply to its
\* FETCH, which it sends when the folder holds a mail.
get_all_mails_outcome(folder_name, raw_data) ==
    IF mails[folder_name] = <<>> THEN "returned"
    ELSE mails_retrieval(FetchResult_from_raw(raw_data).outcome)

\* How _get_files_data_in_folder(folder_name) ends then.
get_files_data_in_folder_outcome(folder_name, raw_data) ==
    files_retrieval(get_all_mails_outcome(folder_name, raw_data))

\* The listing of the target folder that opens the call op raises: the
\* call ends with the exception, and nothing is changed.
ListingRaises(op, raw_data) ==
    /\ pc = "idle"
    /\ target_folder \in folders
    /\ get_files_data_in_folder_outcome(target_folder, raw_data) # "returned"
    /\ result' = Outcome(op,
                         get_files_data_in_folder_outcome(target_folder,
                                                          raw_data),
                         raw_data, <<>>)
    /\ UNCHANGED <<connections, target_folder, backend, pc, up>>

\* The listing of the target folder that opens a call does not raise.
ListingReturns(raw_data) ==
    target_folder \in folders
    => get_files_data_in_folder_outcome(target_folder, raw_data) = "returned"

\* get_files_data(max_recursion_depth=0) with raw_data the reply to FETCH
ListFilesOnReply(raw_data) ==
    \/ ListingRaises("get_files_data", raw_data)
    \/ ListingReturns(raw_data) /\ ListFiles(<<0>>)

\* download with raw_data the reply to the FETCH of its listing
DownloadOnReply(file_name, dst_exists, raw_data) ==
    \/ ListingRaises("download", raw_data)
    \/ ListingReturns(raw_data) /\ Download(file_name, dst_exists)

\* _upload_file_or_buffer with raw_data the reply to the FETCH of its listing
UploadCallOnReply(name, size, start_chunk, workers, raw_data) ==
    \/ ListingRaises("upload", raw_data)
    \/ ListingReturns(raw_data) /\ UploadCall(name, size, start_chunk, workers)

\* remove_file_or_folder_recursively with raw_data the reply to the FETCH of
\* its first listing
RemoveOnReply(file_or_folder_name, recurse, raw_data) ==
    \/ ListingRaises("remove", raw_data)
    \/ ListingReturns(raw_data) /\ Remove(file_or_folder_name, recurse)

(***************************************************************************)
(* SpecFetch: a drive with one connection whose calls list the target      *)
(* folder and get any of the replies to FETCH.                             *)
(***************************************************************************)
\* The mails appended in all under SpecFetch.
MaxFetchMails == 2

NextFetch ==
    \/ \E n \in Names, raw_data \in FetchRepliesOf(target_folder) :
           /\ TotalAppended < MaxFetchMails
           /\ UploadCallOnReply(n, 0, 0, 1, raw_data)
           /\ UNCHANGED <<tree, source_buffer>>
    \/ save_mail(1) /\ UNCHANGED <<tree, source_buffer>>
    \/ store_uploaded_chunks_count(1) /\ UNCHANGED <<tree, source_buffer>>
    \/ UploadReturn /\ UNCHANGED <<tree, source_buffer>>
    \/ \E raw_data \in FetchRepliesOf(target_folder) :
           ListFilesOnReply(raw_data) /\ UNCHANGED <<tree, source_buffer>>
    \/ \E n \in Names, d \in BOOLEAN,
          raw_data \in FetchRepliesOf(target_folder) :
           DownloadOnReply(n, d, raw_data) /\ UNCHANGED <<tree, source_buffer>>
    \/ \E n \in RemoveNames, r \in BOOLEAN,
          raw_data \in FetchRepliesOf(target_folder) :
           RemoveOnReply(n, r, raw_data) /\ UNCHANGED <<tree, source_buffer>>

SpecFetch == InitRemove /\ [][NextFetch]_vars

(***************************************************************************)
(* SpecParse: the parsers of the replies, each applied to every reply of   *)
(* the bounds; result holds the reply and what the parser gave.            *)
(***************************************************************************)
FromRaw(raw_data) ==
    /\ pc = "idle"
    /\ LET parsed == FetchResult_from_raw(raw_data)
       IN  result' = Outcome("from_raw", parsed.outcome, raw_data,
                             [uids |-> parsed.uids, data |-> parsed.data])
    /\ UNCHANGED <<connections, target_folder, backend, pc, up>>

ExtractListResult(data) ==
    /\ pc = "idle"
    /\ LET extracted == extract_list_result(data)
       IN  result' = Outcome("extract_list_result", extracted.outcome, data,
                             extracted.folders)
    /\ UNCHANGED <<connections, target_folder, backend, pc, up>>

NextParse ==
    \/ \E raw_data \in FetchReplies : FromRaw(raw_data)
           /\ UNCHANGED <<tree, source_buffer>>
    \/ \E data \in ListReplies : ExtractListResult(data)
           /\ UNCHANGED <<tree, source_buffer>>

SpecParse == InitRemove /\ [][NextParse]_vars

(***************************************************************************)
(* What the claims speak of.                                               *)
(***************************************************************************)
\* Every chunk index a subject of the model may carry.
ChunkIndices == 0..(MaxLen + MaxStart)

\* The subject is the chunk subject of the file name, for some chunk index.
IsChunkOf(subject, name) ==
    \E k \in ChunkIndices : subject = get_subject_for_file_chunk(name, k)

ChunkIndexOf(subject, name) ==
    CHOOSE k \in ChunkIndices : subject = get_subject_for_file_chunk(name, k)

\* The mails of the list that store a chunk of the file name, in list order.
ChunkMailsOf(ms, name) == SelectSeq(ms, LAMBDA m : IsChunkOf(m.subject, name))

\* The mail that stores chunk k of a source of size bytes named name.
IsChunk(m, name, size, k) ==
    /\ m.subject = get_subject_for_file_chunk(name, k)
    /\ m.body = create_attachment_with_buffer(Payload(size), k)

\* The list holds chunks lo..hi-1 of the source, once each, in this order.
HoldsChunks(ms, name, size, lo, hi) ==
    /\ Len(ms) = hi - lo
    /\ \A i \in 1..Len(ms) : IsChunk(ms[i], name, size, lo + i - 1)

\* The number of mails the running upload has appended.
Appended == LET RECURSIVE Sum(_)
                Sum(i) == IF i = 0 THEN 0 ELSE up.sent[i] + Sum(i - 1)
            IN  Sum(up.workers)

\* The mails the target folder held when the running upload was called.
MailsBefore ==
    SubSeq(get_all_mails(target_folder), 1,
           Len(mails[target_folder]) - Appended)

NoBatchRaised == \A i \in 1..up.workers : ~up.raised[i]

SingleWorker == up.workers = 1 /\ connections = 1

(***************************************************************************)
(* C1: with a single worker and session, after Upload(startChunk = 0) of a *)
(* source of n chunks whose name had no chunk in the target folder has     *)
(* returned, ListFiles(depth 0) holds a file of that name with n chunk     *)
(* mails and Download of that name writes the bytes of the source.         *)
(***************************************************************************)
C1_UploadThenListAndDownload ==
    [][(/\ pc = "uploading"
        /\ UploadReturn
        /\ result'.outcome = "returned"
        /\ SingleWorker
        /\ NoBatchRaised
        /\ up.start_chunk = 0
        /\ ChunkMailsOf(MailsBefore, up.name) = <<>>)
       => (/\ up.name \in DictKeys(get_files_data_depth0)
           /\ Len(DictGet(get_files_data_depth0, up.name))
                  = get_chunk_count_for_size(up.size)
           /\ download_outcome(up.name, FALSE).outcome = "returned"
           /\ download_outcome(up.name, FALSE).data = Payload(up.size))]_vars

(***************************************************************************)
(* C2: in every state reached after an Upload has completed, whatever the  *)
(* number of workers, the target folder lists the chunks of every file in  *)
(* ascending chunk index.                                                  *)
(***************************************************************************)
AscendingChunks(ms, name) ==
    \A i, j \in 1..Len(ChunkMailsOf(ms, name)) :
        i < j => ChunkIndexOf(ChunkMailsOf(ms, name)[i].subject, name)
                     <= ChunkIndexOf(ChunkMailsOf(ms, name)[j].subject, name)

C2_ListingOrderIsChunkOrder ==
    (pc = "idle" /\ result.op = "upload" /\ result.outcome = "returned")
        => \A n \in Names : AscendingChunks(get_all_mails(target_folder), n)

(***************************************************************************)
(* C3: for every file name, once the mail of its chunk 0 is in the target  *)
(* folder, Upload of that name with startChunk = 0 fails with              *)
(* ChunkAlreadyExists naming the subject of chunk 0, and appends nothing.  *)
(***************************************************************************)
C3_ReuploadFails ==
    [][\A n \in Names :
          (get_subject_for_file_chunk(n, 0)
               \in Subjects(get_all_mails(target_folder)))
          => \A z \in 0..MaxLen, w \in 1..MaxWorkers :
                 UploadCall(n, z, 0, w)
                 => (/\ result'.outcome = "YMDChunkAlreadyExists"
                     /\ result'.arg = get_subject_for_file_chunk(n, 0)
                     /\ pc' = "idle"
                     /\ mails' = mails)]_vars

(***************************************************************************)
(* C9: when the target folder holds exactly chunks 0..k-1 (0 < k < n) of   *)
(* an n-chunk source, left by a single-worker upload that stopped, Upload  *)
(* of that source with startChunk = k appends chunks k..n-1 in increasing  *)
(* order and leaves every chunk subject present once, and Upload with a    *)
(* startChunk j < k fails with ChunkAlreadyExists and appends nothing.     *)
(***************************************************************************)
PartiallyUploaded(ms, name, size, k) ==
    /\ 0 < k
    /\ k < get_chunk_count_for_size(size)
    /\ HoldsChunks(ChunkMailsOf(ms, name), name, size, 0, k)

C9_ResumeFromStartChunk ==
    [][/\ \A n \in Names, z \in 0..MaxLen :
             LET k == Len(ChunkMailsOf(get_all_mails(target_folder), n))
             IN  (pc = "idle"
                  /\ PartiallyUploaded(get_all_mails(target_folder), n, z, k))
                 => \A j \in 0..MaxStart, w \in 1..MaxWorkers :
                        (j < k /\ UploadCall(n, z, j, w))
                        => (/\ result'.outcome = "YMDChunkAlreadyExists"
                            /\ pc' = "idle"
                            /\ mails' = mails)
       /\ (/\ pc = "uploading"
           /\ SingleWorker
           /\ NoBatchRaised
           /\ PartiallyUploaded(MailsBefore, up.name, up.size, up.start_chunk)
           /\ UploadReturn)
          => (/\ result'.outcome = "returned"
              /\ Appended = up.needed_chunks_count - up.start_chunk
              /\ HoldsChunks(ChunkMailsOf(get_all_mails(target_folder),
                                          up.name),
                             up.name, up.size, 0, up.needed_chunks_count))
      ]_vars

(***************************************************************************)
(* C10: when save_mail has failed in a batch of an Upload, the Upload      *)
(* reports an error to its caller once all the batches have ended; it does *)
(* not return normally.                                                    *)
(***************************************************************************)
C10_FailedBatchIsReported ==
    [][(UploadReturn /\ ~NoBatchRaised) => result'.outcome # "returned"]_vars

(***************************************************************************)
(* What the claims about Remove speak of.                                  *)
(***************************************************************************)
\* name is a folder of the backend and no virtual file of the target folder.
IsFolderOnly(name) ==
    /\ pc = "idle"
    /\ target_folder \in folders
    /\ name \in folders
    /\ name \notin DictKeys(get_files_data_depth0)

\* f is a descendant of the folder name: its path is name + "/" + ...
IsDescendant(f, name) == startswith(f, name \o <<SEP>>)

\* The mails of folder f are flagged after the step as they were before it.
SameFlags(f) ==
    /\ Len(mails'[f]) = Len(mails[f])
    /\ \A i \in 1..Len(mails[f]) : mails'[f][i].deleted = mails[f][i].deleted

(***************************************************************************)
(* C4: Remove(name, recurse = true) of a folder that is no virtual file of *)
(* the target folder marks for deletion only mails stored in folder name:  *)
(* no mail of a folder that the removal leaves in place, the target folder *)
(* included, is copied to Trash or flagged deleted.                        *)
(***************************************************************************)
C4_RemoveFolderTrashesOnlyItsMails ==
    [][\A n \in FolderUniverse :
          (IsFolderOnly(n) /\ Remove(n, TRUE))
          => \A f \in folders' : f # n => SameFlags(f)]_vars

(***************************************************************************)
(* C5: Remove(name, recurse = true) of a folder deletes only folder name   *)
(* and its descendants name + "/" + ...: every other folder, a sibling     *)
(* whose path begins with the same characters included, still exists.      *)
(***************************************************************************)
C5_RemoveFolderKeepsSiblings ==
    [][\A n \in FolderUniverse :
          (IsFolderOnly(n) /\ Remove(n, TRUE))
          => \A f \in folders :
                 (f # n /\ ~IsDescendant(f, n)) => f \in folders']_vars

(***************************************************************************)
(* C6: when name is a virtual file of the target folder and the folder     *)
(* target_folder + "/" + name exists, Remove(name, recurse) fails with     *)
(* YMDAmbiguousNameError for both values of recurse and deletes neither a  *)
(* mail nor a folder.                                                      *)
(***************************************************************************)
C6_AmbiguousNameIsRefused ==
    [][\A n \in RemoveNames, r \in BOOLEAN :
          (/\ pc = "idle"
           /\ target_folder \in folders
           /\ n \in DictKeys(get_files_data_depth0)
           /\ (target_folder \o <<SEP>> \o n) \in folders
           /\ Remove(n, r))
          => (/\ result'.outcome = "YMDAmbiguousNameError"
              /\ backend' = backend)]_vars

(***************************************************************************)
(* C7: Remove(name, recurse = false) of an existing folder that holds a    *)
(* virtual file or a subfolder fails with YMDFolderIsNotEmptyError and     *)
(* deletes no mail and no folder.                                          *)
(***************************************************************************)
C7_NonEmptyFolderIsRefused ==
    [][\A n \in FolderUniverse :
          (/\ IsFolderOnly(n)
           /\ \/ get_files_data_in_folder(n) # <<>>
              \/ \E f \in folders : IsDescendant(f, n)
           /\ Remove(n, FALSE))
          => (/\ result'.outcome = "YMDFolderIsNotEmptyError"
              /\ backend' = backend)]_vars

\* name is neither a virtual file of the existing target folder nor a folder.
IsNothing(name) ==
    /\ pc = "idle"
    /\ target_folder \in folders
    /\ name \notin DictKeys(get_files_data_depth0)
    /\ name \notin folders

C11_ProgressCountIsExact ==
    [][/\ (pc = "uploading" /\ pc' = "uploading")
          => up'.uploaded_chunks_count >= up.uploaded_chunks_count
       /\ (pc = "uploading" /\ NoBatchRaised /\ UploadReturn
           /\ result'.outcome = "returned")
          => up.uploaded_chunks_count = Appended]_vars

(***************************************************************************)
(* What the claims about the batches speak of.                             *)
(***************************************************************************)
\* The number of chunk indices left to distribute in a Distribute result.
Remaining(r) ==
    LET n == get_chunk_count_for_size(r.arg[1]) - r.arg[2]
    IN  IF n > 0 THEN n ELSE 0

Ceil(a, b) == (a + b - 1) \div b

(***************************************************************************)
(* C12: for t remaining chunk indices and w >= 1 workers, every           *)
(* batch holds at most ceil(t / w) indices, and no batch is empty whenever *)
(* t >= w.                                                                 *)
(***************************************************************************)
C12_BatchesAtMostCeil ==
    result.op = "batches"
    => LET t == Remaining(result)
           w == result.arg[3]
       IN  \A i \in 1..w :
               /\ Len(result.data[i]) <= Ceil(t, w)
               /\ t >= w => result.data[i] # <<>>

C13_OneTaskPerConnection ==
    pc = "uploading"
    => /\ DOMAIN up.connection = 1..up.submitted
       /\ \A i \in 1..up.submitted : up.connection[i] \in 1..connections
       /\ \A i, j \in 1..up.submitted :
              i # j => up.connection[i] # up.connection[j]

\* Two tasks run at the same time and each has just appended a mail on its
\* connection.
C13_Witness ==
    /\ pc = "uploading"
    /\ up.submitted = 2
    /\ Running(1) /\ up.loaded[1] # NotLoaded
    /\ Running(2) /\ up.loaded[2] # NotLoaded

\* Every chunk subject of a source of that name and size is in the mails.
Complete(ms, name, size) ==
    \A k \in 0..(get_chunk_count_for_size(size) - 1) :
        get_subject_for_file_chunk(name, k) \in Subjects(ms)

(***************************************************************************)
(* C14: when every chunk subject of a source is present in the target      *)
(* folder, an Upload of that name and source, with any start chunk and any *)
(* number of workers, either fails with YMDChunkAlreadyExists or starts    *)
(* with nothing to append: the mails of the folder stay as they are.       *)
(***************************************************************************)
C14_CompleteFileStaysComplete ==
    [][\A n \in Names, z \in 0..MaxLen :
          (/\ pc = "idle"
           /\ target_folder \in folders
           /\ Complete(get_all_mails(target_folder), n, z))
          => \A s \in 0..MaxStart, w \in 1..MaxWorkers :
                 UploadCall(n, z, s, w)
                 => /\ mails' = mails
                    /\ \/ result'.outcome = "YMDChunkAlreadyExists"
                       \/ /\ pc' = "uploading"
                          /\ \A i \in 1..w : up'.batches[i] = <<>>]_vars

\* name is a virtual file of the existing target folder (a mail of the
\* folder stores one of its chunks) and no folder bears that name, as a full
\* path or under the target folder.
IsFileOnly(name) ==
    /\ pc = "idle"
    /\ target_folder \in folders
    /\ ChunkMailsOf(mails[target_folder], name) # <<>>
    /\ name \notin folders
    /\ (target_folder \o <<SEP>> \o name) \notin folders

(***************************************************************************)
(* C15: Remove(name) of a name that is only a virtual file of the target   *)
(* folder marks for deletion every chunk mail of that file and no other    *)
(* mail of the folder, leaves the mails of the other folders as they are   *)
(* and creates or deletes no folder.                                       *)
(***************************************************************************)
C15_RemoveFileTrashesItsChunks ==
    [][\A n \in Names, r \in BOOLEAN :
          (IsFileOnly(n) /\ Remove(n, r))
          => /\ result'.outcome = "returned"
             /\ folders' = folders
             /\ \A f \in FolderUniverse \ {target_folder} :
                    mails'[f] = mails[f]
             /\ Len(mails'[target_folder]) = Len(mails[target_folder])
             /\ \A i \in 1..Len(mails[target_folder]) :
                    LET m == mails[target_folder][i]
                    IN  mails'[target_folder][i] =
                            IF IsChunkOf(m.subject, n)
                            THEN [m EXCEPT !.deleted = TRUE]
                            ELSE m]_vars

(***************************************************************************)
(* C16: Remove(name, recurse = true) of a folder first deletes the mails   *)
(* of the virtual files of folder name, then its subfolders in order of    *)
(* non-increasing depth, and folder name last: no folder is deleted while  *)
(* one of its descendants still exists.  result.data holds the calls made  *)
(* on the backend, in order; the last one deletes folder name.             *)
(***************************************************************************)
C16_MailsThenDescendantsFirst ==
    [][(pc = "idle" /\ result'.op = "remove" /\ result'.data # <<>>)
       => LET steps == result'.data
              order == [i \in 1..(Len(steps) - 1) |-> steps[i + 1].folder]
              n == steps[Len(steps)].folder
              \* the folders that exist when order[i] is deleted
              existing(i) == folders \ {order[k] : k \in 1..(i - 1)}
          IN  (IsFolderOnly(n) /\ Remove(n, TRUE))
              => /\ get_files_data_in_folder(n) # <<>>
                        => /\ steps[1].op = "delete_mails"
                           /\ steps[1].folder = n
                 /\ \A i \in 1..Len(order) : steps[i + 1].op = "delete_folder"
                 /\ \A i, j \in 1..(Len(order) - 1) :
                        i < j => CountSep(order[i]) >= CountSep(order[j])
                 /\ \A i \in 1..Len(order) :
                        /\ order[i] \in existing(i)
                        /\ \A f \in existing(i) : ~IsDescendant(f, order[i])
                 /\ folders' = folders \ {order[k] : k \in 1..Len(order)}
      ]_vars

(***************************************************************************)
(* C17: Download(name, destination path) fails with YMDFileDoesNotExist    *)
(* when name is not a virtual file directly in the target folder, and with *)
(* FileExistsError when name is one and the destination path exists; in    *)
(* both cases nothing is fetched or written to the destination.            *)
(***************************************************************************)
C17_DownloadRefusals ==
    [][(pc = "idle" /\ target_folder \in folders /\ result'.op = "download")
       => \A n \in Names, d \in BOOLEAN :
              Download(n, d)
              => LET is_file == ChunkMailsOf(mails[target_folder], n) # <<>>
                 IN  /\ ~is_file
                        => /\ result'.outcome = "YMDFileDoesNotExist"
                           /\ result'.data = <<>>
                     /\ (is_file /\ d)
                        => /\ result'.outcome = "FileExistsError"
                           /\ result'.data = <<>>
                     /\ backend' = backend]_vars

(***************************************************************************)
(* What the claims about the listing speak of.                             *)
(***************************************************************************)
\* The items of a dict, as a set.
DictItems(d) == {d[i] : i \in 1..Len(d)}

\* The path of the descendant f relative to the target folder, and its
\* depth: the number of path segments below the target folder.
RelativePath(f) == SubSeq(f, Len(target_folder) + 2, Len(f))

DepthBelowTarget(f) == CountSep(RelativePath(f)) + 1

\* What a descendant f of the target folder is to contribute to the listing
\* of depth max_recursion_depth.
Contribution(f, max_recursion_depth) ==
    IF max_recursion_depth = <<>>
       \/ DepthBelowTarget(f) < max_recursion_depth[1]
    THEN {[key |-> RelativePath(f) \o <<SEP>> \o item.key,
           chunks |-> item.chunks] :
             item \in DictItems(get_files_data_in_folder(f))}
    ELSE IF DepthBelowTarget(f) = max_recursion_depth[1]
    THEN {[key |-> RelativePath(f) \o <<SEP>>, chunks |-> <<>>]}
    ELSE {}

(***************************************************************************)
(* C18: the listing of depth d holds the virtual files directly in the     *)
(* target folder and, for d > 0, for every descendant folder at depth      *)
(* k < d its virtual files under keys prefixed by its relative path, for   *)
(* every descendant at depth k = d one placeholder with zero chunks, and   *)
(* nothing for a descendant at depth k > d; with the depth unset every     *)
(* descendant is expanded.  Folders that are no descendants of the target  *)
(* folder contribute no entry.                                             *)
(***************************************************************************)
C18_ListingByDepth ==
    [][(pc = "idle" /\ target_folder \in folders
        /\ result'.op = "get_files_data" /\ ListFiles(result'.arg))
       => LET d == result'.arg
              descendants ==
                  IF d = <<0>> THEN {}
                  ELSE {f \in folders : IsDescendant(f, target_folder)}
              expected ==
                  DictItems(get_files_data_in_folder(target_folder))
                  \cup UNION {Contribution(f, d) : f \in descendants}
          IN  /\ result'.outcome = "returned"
              /\ DictItems(result'.data) = expected
              /\ Len(result'.data) = Cardinality(expected)]_vars

\* The file names that have a chunk mail in the list, by the subject pattern.
FilesIn(ms) == {n \in Names : ChunkMailsOf(ms, n) # <<>>}

\* The place in the list of the first mail of the entry.
FirstSeen(ms, entry) ==
    CHOOSE i \in 1..Len(ms) : ms[i] = entry.chunks[1]

(***************************************************************************)
(* C19: the listing of the target folder groups its mails by the name      *)
(* portion of the subjects "<name>.part<N>": every such mail is in the     *)
(* one virtual file keyed by its name portion, each chunk list keeps the   *)
(* order of the folder's listing, the files are in first-seen order, and   *)
(* a mail whose subject is not of this form is in no virtual file and      *)
(* causes no error.                                                        *)
(***************************************************************************)
C19_GroupsBySubjectPattern ==
    [][(pc = "idle" /\ target_folder \in folders
        /\ result'.op = "get_files_data" /\ result'.arg = <<0>>
        /\ ListFiles(<<0>>))
       => LET ms == get_all_mails(target_folder)
              data == result'.data
          IN  /\ result'.outcome = "returned"
              /\ Len(data) = Cardinality(FilesIn(ms))
              /\ DictItems(data) =
                     {[key |-> n, chunks |-> ChunkMailsOf(ms, n)] :
                          n \in FilesIn(ms)}
              /\ \A i, j \in 1..Len(data) :
                     i < j => FirstSeen(ms, data[i]) < FirstSeen(ms, data[j])]_vars

(***************************************************************************)
(* C21: a payload whose length is exactly the maximum attachment size M    *)
(* needs exactly one chunk, a payload of M + 1 bytes two chunks and a      *)
(* payload of 2 * M bytes three chunks.                                    *)
(***************************************************************************)
C21_ExactSizeNeedsOneChunk ==
    result.op = "get_chunk_count_for_size"
    => LET length == result.arg[1]
           c == result.data
       IN  /\ length = MAX_ATTACHMENT_SIZE => c = 1
           /\ length = MAX_ATTACHMENT_SIZE + 1 => c = 2
           /\ length = 2 * MAX_ATTACHMENT_SIZE => c = 3

(***************************************************************************)
(* C22: for every folder name s of printable ASCII characters, '&',        *)
(* backslash and double quote included, and runs of characters outside     *)
(* ASCII, decode_folder_name(encode_folder_name(s)) = s.                   *)
(***************************************************************************)
C22_DecodeOfEncodeIsIdentity ==
    [][(result.op = "encode_folder_name"
        /\ result'.op = "decode_folder_name")
       => /\ result'.outcome = "returned"
          /\ result'.data = result.arg]_vars

\* The characters written as they are, '&' as "&-", with the quoting of
\* the whole.
Verbatim(s) ==
    LET RECURSIVE Copy(_)
        Copy(r) == IF r = <<>> THEN <<>>
                   ELSE IF Head(r) = AMPERSAND
                   THEN <<AMPERSAND, HYPHEN>> \o Copy(Tail(r))
                   ELSE <<Head(r)>> \o Copy(Tail(r))
    IN  <<DQUOTE>> \o escape(Copy(s)) \o <<DQUOTE>>

(***************************************************************************)
(* C23: encode_folder_name copies every character from 0x20 to 0x7E, '~'   *)
(* (0x7E) included, as it is, except '&' which becomes "&-"; only the      *)
(* characters outside that range go into base64 runs: a name made of       *)
(* characters of the range is encoded without any base64 run.              *)
(***************************************************************************)
C23_PrintableAsciiIsCopied ==
    (/\ result.op = "encode_folder_name"
     /\ \A i \in 1..Len(result.arg) : result.arg[i] \in 32..TILDE)
    => result.data = Verbatim(result.arg)

(***************************************************************************)
(* C24: FetchResult.from_raw fails with FetchExtractionError whenever the  *)
(* first data element of the reply is nil or the number of data elements   *)
(* is odd; on any other reply it returns ids and data of equal length,     *)
(* element i of both coming from the same message, in the reverse of the   *)
(* order of the reply.                                                     *)
(***************************************************************************)
C24_FromRawFailsOrReverses ==
    result.op = "from_raw"
    => LET raw_data == result.arg
           n == Len(raw_data) \div 2
       IN  IF raw_data[1].kind = "None" \/ Len(raw_data) % 2 # 0
           THEN result.outcome = "YMDFetchResultExtractionError"
           ELSE /\ result.outcome = "returned"
                /\ Len(result.data.uids) = n
                /\ Len(result.data.data) = n
                /\ \A i \in 1..n :
                       LET message == raw_data[2 * (n - i) + 1]
                       IN  /\ message.kind = "tuple"
                           /\ result.data.uids[i] = message.metadata[3]
                           /\ result.data.data[i] = message.mail_data

\* The line of a LIST reply holds the delimiter '"/" '.
HasDelimiter(line) == partition(line, ListDelimiter)[2] = ListDelimiter

(***************************************************************************)
(* C25: extract_list_result fails with ListExtractionError for every LIST  *)
(* reply that holds a line lacking the delimiter '"/" ', and returns no    *)
(* folder list in that case.                                               *)
(***************************************************************************)
C25_MissingDelimiterIsAnError ==
    (/\ result.op = "extract_list_result"
     /\ \E i \in 1..Len(result.arg) : ~HasDelimiter(result.arg[i]))
    => /\ result.outcome = "YMDListResultExtractionError"
       /\ result.data = <<>>

(***************************************************************************)
(* What the claims about the upload of a directory speak of.               *)
(***************************************************************************)
\* The backend folder that mirrors the local directory path of the tree
\* uploaded to the folder "ymd".
MirrorFolder(path) ==
    IF path = <<>> THEN FolderYmd ELSE FolderYmd \o <<SEP>> \o path

\* The folder and the folders above it: the "/"-prefixes of its path.
WithAncestors(f) ==
    {SubSeq(f, 1, i) : i \in {j \in 1..Len(f) : j = Len(f) \/ f[j + 1] = SEP}}

\* The uploads of the log that failed with YMDChunkAlreadyExists.
Failures(log) ==
    {log[i] : i \in {j \in 1..Len(log) :
                         log[j].outcome = "YMDChunkAlreadyExists"}}

(***************************************************************************)
(* C26: when a file of the tree fails with ChunkAlreadyExists during the   *)
(* upload of a directory, the failure is reported to the caller: the call  *)
(* does not return normally.                                               *)
(***************************************************************************)
C26_ChunkAlreadyExistsIsReported ==
    (result.op = "upload_tree" /\ Failures(result.data) # {})
    => result.outcome = "YMDChunkAlreadyExists"

(***************************************************************************)
(* C27: in the upload of a directory, once a file of a directory has       *)
(* failed with ChunkAlreadyExists no later entry of that directory, file   *)
(* or subdirectory, is uploaded: nothing more is appended to its folder    *)
(* or below it and no folder is created below it; the remaining entries    *)
(* of the directories above are still processed: when the call returns,    *)
(* every file of a directory that is neither a directory with a failure    *)
(* nor below one has been handed to the upload.                            *)
(***************************************************************************)
C27_FailureSkipsOnlyLaterSiblings ==
    [][/\ Walking
          => \A e \in Failures(tree.log) :
                 \A g \in FolderUniverse :
                     (g = e.folder \/ IsDescendant(g, e.folder))
                     => /\ mails'[g] = mails[g]
                        /\ (g \in folders') = (g \in folders)
       /\ (Walking /\ tree' = NoTree /\ result'.outcome = "returned")
          => \A path \in LocalDirs :
                 \/ \E e \in Failures(result'.data) :
                        \/ MirrorFolder(path) = e.folder
                        \/ IsDescendant(MirrorFolder(path), e.folder)
                 \/ \A inner \in iterdir(path) :
                        ~inner.is_dir
                        => \E i \in 1..Len(result'.data) :
                               /\ result'.data[i].name = inner.name
                               /\ result'.data[i].folder = MirrorFolder(path)
      ]_vars

\* The call has returned; the file "b" of the directory "a" had failed, the
\* directory "a/a" that came after it was not mirrored, and the file "b" of
\* the root was uploaded after the failure.
C27_Witness ==
    /\ result.op = "upload_tree"
    /\ result.outcome = "returned"
    /\ FolderYmdAA \notin folders
    /\ \E i, j \in 1..Len(result.data) :
           /\ i < j
           /\ result.data[i].outcome = "YMDChunkAlreadyExists"
           /\ result.data[i].folder = FolderYmdA
           /\ result.data[j].outcome = "returned"
           /\ result.data[j].folder = FolderYmd

(***************************************************************************)
(* C28: in the upload of a directory, every chunk of a file of the local   *)
(* subdirectory d of the root is appended to the backend folder            *)
(* targetFolder + "/" + (path of d relative to the root), whatever the     *)
(* order in which files and subdirectories are iterated, and that folder   *)
(* and all its ancestors exist before the first chunk is appended.         *)
(***************************************************************************)
C28_ChunksGoToTheMirrorFolder ==
    [][/\ (Walking /\ mails' # mails)
          => LET g == MirrorFolder(Top.path)
             IN  /\ LocalFile(Top.inner_file_or_folder) \in iterdir(Top.path)
                 /\ WithAncestors(g) \subseteq folders
                 /\ \A f \in FolderUniverse \ {g} : mails'[f] = mails[f]
                 /\ Len(mails'[g]) = Len(mails[g]) + 1
                 /\ SubSeq(mails'[g], 1, Len(mails[g])) = mails[g]
                 /\ IsChunkOf(mails'[g][Len(mails'[g])].subject,
                              Top.inner_file_or_folder)
       /\ (/\ Walking /\ pc = "idle" /\ Top.uploading
           /\ result.op = "upload" /\ result.outcome = "returned")
          => \A k \in 0..(get_chunk_count_for_size(0) - 1) :
                 get_subject_for_file_chunk(Top.inner_file_or_folder, k)
                     \in Subjects(mails[MirrorFolder(Top.path)])
      ]_vars

\* The call has returned and has uploaded the file "a" of the directory
\* "a/a" to the folder "ymd/a/a", where its chunk is.
C28_Witness ==
    /\ result.op = "upload_tree"
    /\ result.outcome = "returned"
    /\ \E i \in 1..Len(result.data) :
           /\ result.data[i].outcome = "returned"
           /\ result.data[i].name = NameA
           /\ result.data[i].folder = FolderYmdAA
    /\ get_subject_for_file_chunk(NameA, 0) \in Subjects(mails[FolderYmdAA])

(***************************************************************************)
(* C29: create_folder(p) sends CREATE for each missing "/"-prefix of p     *)
(* from the shortest to the longest and never for a folder that exists,    *)
(* so a folder is created only when all its ancestors exist; afterwards p  *)
(* and all its ancestors exist, and create_folder on an existing p sends   *)
(* no CREATE.                                                              *)
(***************************************************************************)
C29_CreatesMissingPrefixesInOrder ==
    [][(/\ pc = "idle"
        /\ result'.op = "target_folder"
        /\ SetTargetFolder(result'.arg))
       => LET p == result'.arg
              creates == result'.data
              missing == WithAncestors(p) \ folders
          IN  /\ SeqRange(creates) = missing
              /\ Len(creates) = Cardinality(missing)
              /\ \A i, j \in 1..Len(creates) :
                     i < j => Len(creates[i]) < Len(creates[j])
              /\ \A i \in 1..Len(creates) :
                     WithAncestors(creates[i]) \ {creates[i]}
                         \subseteq folders
                                   \cup {creates[k] : k \in 1..(i - 1)}
              /\ WithAncestors(p) \subseteq folders'
              /\ p \in folders => creates = <<>>]_vars

\* The target folder was set to "ymd/a/a" and CREATE was sent for more than
\* one folder.
C29_Witness ==
    /\ result.op = "target_folder"
    /\ result.arg = FolderYmdAA
    /\ Len(result.data) >= 2

(***************************************************************************)
(* C30: when the listing of the target folder that opens a call of the     *)
(* drive (get_files_data, download, upload, remove) gets a reply to FETCH  *)
(* whose parsing raises YMDFetchResultExtractionError, get_all_mails       *)
(* raises YMDMailsRetrievalError and the call ends with                    *)
(* YMDFilesRetrievalError: it returns no listing, not even of a part of    *)
(* the files, and leaves the server as it was.                             *)
(***************************************************************************)
CalledOnReply(raw_data) ==
    \/ ListFilesOnReply(raw_data)
    \/ \E n \in Names, d \in BOOLEAN : DownloadOnReply(n, d, raw_data)
    \/ \E n \in Names : UploadCallOnReply(n, 0, 0, 1, raw_data)
    \/ \E n \in RemoveNames, r \in BOOLEAN : RemoveOnReply(n, r, raw_data)

C30_ExtractionErrorFailsTheCall ==
    [][\A raw_data \in FetchRepliesOf(target_folder) :
           (/\ pc = "idle"
            /\ target_folder \in folders
            /\ mails[target_folder] # <<>>
            /\ FetchResult_from_raw(raw_data).outcome
                   = "YMDFetchResultExtractionError"
            /\ CalledOnReply(raw_data))
           => /\ get_all_mails_outcome(target_folder, raw_data)
                     = "YMDMailsRetrievalError"
              /\ result'.op \in {"get_files_data", "download", "upload",
                                 "remove"}
              /\ result'.outcome = "YMDFilesRetrievalError"
              /\ result'.data = <<>>
              /\ pc' = "idle"
              /\ backend' = backend]_vars

\* A removal ended with YMDFilesRetrievalError in a folder that holds a
\* mail, on the reply [None].
C30_Witness ==
    /\ result.op = "remove"
    /\ result.outcome = "YMDFilesRetrievalError"
    /\ mails[target_folder] # <<>>
    /\ result.arg = <<FetchNone>>

(***************************************************************************)
(* C31: for every chunk i that an upload sends, load_chunk returns the     *)
(* bytes of the source from offset i * M up to (i + 1) * M or to the end   *)
(* of the source, whichever comes first: M bytes for a range within the    *)
(* source, and the bytes that are left, fewer than M, for the range of the *)
(* last chunk.                                                             *)
(***************************************************************************)
\* The mail that the step has appended to the target folder.
AppendedMail == mails'[target_folder][Len(mails'[target_folder])]

\* The chunk that the task of batch i sends next.
NextChunk(i) == up.batches[i][up.sent[i] + 1]

C32_BatchIsSentInOrder ==
    [][(pc = "uploading" /\ pc' = "uploading")
       => /\ \A i \in 1..up.submitted :
                 /\ up'.sent[i] \in {up.sent[i], up.sent[i] + 1}
                 /\ up'.sent[i] = up.sent[i] + 1
                        => /\ up'.sent[i] <= Len(up.batches[i])
                           /\ Len(mails'[target_folder])
                                  = Len(mails[target_folder]) + 1
                           /\ AppendedMail.subject
                                  = get_subject_for_file_chunk(up.name,
                                                               NextChunk(i))
                           /\ \A j \in 1..up.submitted :
                                  j # i => up'.sent[j] = up.sent[j]
                 /\ \A k \in 1..up'.sent[i] :
                        get_subject_for_file_chunk(up.name, up.batches[i][k])
                            \in Subjects(mails'[target_folder])
          /\ mails' # mails
                 => \E i \in 1..up.submitted : up'.sent[i] = up.sent[i] + 1
          /\ up'.batches = up.batches]_vars

\* Two batches run; the first has appended one of its two chunks, the
\* second its only chunk.
C32_Witness ==
    /\ pc = "uploading"
    /\ up.submitted = 2
    /\ Len(up.batches[1]) = 2
    /\ up.sent[1] = 1
    /\ up.sent[2] = 1

(***************************************************************************)
(* C33: for every size, start_chunk >= 0 and workers >= 1, the batches are *)
(* as many as the workers and, put end to end in their order, they are the *)
(* sequence start_chunk, ..., n - 1 of the chunks to upload: the batches   *)
(* are contiguous, disjoint and increasing, and every index is in exactly  *)
(* one batch.                                                              *)
(***************************************************************************)
RECURSIVE Flatten(_)
Flatten(seqs) ==
    IF seqs = <<>> THEN <<>> ELSE Head(seqs) \o Flatten(Tail(seqs))

C33_BatchesPartitionTheChunks ==
    result.op = "batches"
    => LET size == result.arg[1]
           start_chunk == result.arg[2]
           workers == result.arg[3]
           n == get_chunk_count_for_size(size)
           batches == result.data
           all == Flatten(batches)
       IN  /\ Len(batches) = workers
           /\ Len(all) = IF start_chunk < n THEN n - start_chunk ELSE 0
           /\ \A k \in 1..Len(all) : all[k] = start_chunk + k - 1
           /\ \A i, j \in 1..workers :
                  i # j => SeqRange(batches[i]) \cap SeqRange(batches[j]) = {}
           /\ \A x \in start_chunk..(n - 1) :
                  Cardinality({i \in 1..workers : x \in SeqRange(batches[i])})
                      = 1

\* Five chunks were distributed to three workers: three, two and none.
C33_Witness ==
    /\ result.op = "batches"
    /\ Len(result.data) = 3
    /\ Len(result.data[1]) = 3
    /\ Len(result.data[2]) = 2
    /\ result.data[3] = <<>>

(***************************************************************************)
(* C34: when the batches of an upload read one shared stream, the task of  *)
(* a batch reads at the offset it has sought, i * M for its chunk i, so    *)
(* that the mail "<name>.part<i+1>" it appends carries the bytes of the    *)
(* source from i * M, whatever the other tasks do between its seek and its *)
(* read.                                                                   *)
(***************************************************************************)
C34_SeekAndReadAreNotSeparated ==
    [][\A i \in 1..MaxWorkers :
           buffer_read_save_mail(i)
           => /\ source_buffer.cursor = NextChunk(i) * MAX_ATTACHMENT_SIZE
              /\ AppendedMail.subject
                     = get_subject_for_file_chunk(up.name, NextChunk(i))
              /\ AppendedMail.body
                     = create_attachment_with_buffer(Payload(up.size),
                                                     NextChunk(i))]_vars

(***************************************************************************)
(* C35: whatever uploads were called for a file name, with any start_chunk *)
(* and any number of workers, and whether or not a batch failed, no two    *)
(* mails of the target folder have the same subject.                       *)
(***************************************************************************)
C35_NoTwoMailsOfOneChunk ==
    \A j, k \in 1..Len(mails[target_folder]) :
        j # k => mails[target_folder][j].subject
                     # mails[target_folder][k].subject

(***************************************************************************)
(* C36: the file name extracted from the subject of every chunk that an    *)
(* upload of the file f appends, f + ".part" + (i + 1), is f, also when f  *)
(* itself holds ".part".                                                   *)
(***************************************************************************)
C36_SubjectGivesBackTheName ==
    [][\A i \in 1..MaxWorkers :
           save_mail(i)
           => /\ AppendedMail.subject
                     = get_subject_for_file_chunk(up.name, NextChunk(i))
              /\ get_file_name_from_subject(AppendedMail.subject)
                     = up.name]_vars

(***************************************************************************)
(* C37: an upload called with a number of workers that is not the number   *)
(* of connections of the drive ends with an exception, and no step of it   *)
(* appends a mail.                                                         *)
(***************************************************************************)
C37_WrongWorkerCountAppendsNothing ==
    [][(pc = "uploading" /\ up.workers # connections)
       => /\ mails' = mails
          /\ pc' = "idle" => result'.outcome \notin {"returned", "running"}]_vars

=============================================================================
